---------------------------- MODULE Spec2Model ----------------------------
(***************************************************************************)
(* Model of the resume/portfolio generator: the ATS keyword engine         *)
(* (src/utils/ats.py: clean_text, tokenize, extract_keywords,              *)
(* merge_keywords, keyword_match_score), the text generator                *)
(* (src/utils/Utills/llm.py: generate_text and the LLMGenerator methods),  *)
(* the portfolio archive (portfolio.py: make_portfolio_zip) and the run of *)
(* the Streamlit script (src/app.py: main).                                *)
(*                                                                         *)
(* A Python str is a sequence of one-character strings, a list is a        *)
(* sequence, a dict is a function from its keys.  A float score is kept in *)
(* tenths of a percent (66.7 is 667).                                      *)
(***************************************************************************)
EXTENDS Integers, Sequences, FiniteSets, TLC

VARIABLES
    job_description,   \* argument: the job-description text (or None)
    top_n,             \* argument of extract_keywords
    heap,              \* the dict objects, by reference (1, 2, ...)
    profile,           \* reference of the caller's profile dict
    kw_arg,            \* argument: the keyword list given to merge_keywords
    pc,                \* which call has returned
    tokens,            \* return value of tokenize
    scored_keywords,   \* extract_keywords: the sorted (word, score, count) list
    keywords,          \* return value of extract_keywords
    merged,            \* references returned by the merge_keywords calls so far
    match,             \* outcome of keyword_match_score
    api_url,           \* LLMGenerator.api_url
    api_token,         \* LLMGenerator.api_token
    kind,              \* argument of generate_text
    data,              \* argument of generate_text: the context dict
    remote,            \* what the request of this call meets
    generated,         \* outcome of generate_text
    requests_sent,     \* number of requests.post calls so far
    ui,                \* main: the profile box, the sidebar and the button
    run,               \* main: the locals of the run and the calls it made
    zip_args,          \* arguments of make_portfolio_zip
    temp_dir,          \* make_portfolio_zip: the files in its directory
    archive,           \* make_portfolio_zip: the names in portfolio.zip
    render_args,       \* render_pdf / render_docx: the arguments and what
                       \* the libraries and the file system will do
    fs,                \* the paths at which a file exists
    text_content,      \* render_docx: the text extracted from the HTML
    render_result      \* the renderer's document, return value or exception

\* the variables of the keyword engine other than pc
ats_data == << job_description, top_n, heap, profile, kw_arg, tokens,
               scored_keywords, keywords, merged, match >>

\* the variables of the text generator
llm_vars == << api_url, api_token, kind, data, remote, generated,
               requests_sent >>

\* the variables of main
app_vars == << ui, run >>

\* the variables of make_portfolio_zip
zip_vars == << zip_args, temp_dir, archive >>

\* the variables of render_pdf and render_docx
render_vars == << render_args, fs, text_content, render_result >>

vars == << ats_data, pc, llm_vars, app_vars, zip_vars, render_vars >>

-----------------------------------------------------------------------------
(* Characters and strings                                                  *)

Range(s) == { s[i] : i \in 1..Len(s) }

IndexOf(s, x) == CHOOSE i \in 1..Len(s) : s[i] = x

\* Python None, kept apart from every str (no str holds a 4-character item).
None == << "None" >>

UpperCase == << "A", "B", "C", "D", "E", "F", "G", "H", "I", "J", "K", "L", "M",
                "N", "O", "P", "Q", "R", "S", "T", "U", "V", "W", "X", "Y", "Z" >>

LowerCase == << "a", "b", "c", "d", "e", "f", "g", "h", "i", "j", "k", "l", "m",
                "n", "o", "p", "q", "r", "s", "t", "u", "v", "w", "x", "y", "z" >>

Digits == << "0", "1", "2", "3", "4", "5", "6", "7", "8", "9" >>

\* \s of the regular expressions and the separators of str.split()
Whitespace == { " ", "\t", "\n" }

\* the class [A-Za-z0-9\s\-/&+] that clean_text keeps
KeptChars ==
    Range(UpperCase) \cup Range(LowerCase) \cup Range(Digits) \cup Whitespace
        \cup { "-", "/", "&", "+" }

\* the argument of word.strip('.,-/_&+') in tokenize
StripChars == { ".", ",", "-", "/", "_", "&", "+" }

\* str.lower() on one character
ToLower(c) ==
    IF c \in Range(UpperCase) THEN LowerCase[IndexOf(UpperCase, c)] ELSE c

\* the code point of a character (Python compares str by code point)
Ord(c) ==
    IF c \in Range(LowerCase) THEN 96 + IndexOf(LowerCase, c)
    ELSE IF c \in Range(UpperCase) THEN 64 + IndexOf(UpperCase, c)
    ELSE IF c \in Range(Digits) THEN 47 + IndexOf(Digits, c)
    ELSE IF c = "\t" THEN 9
    ELSE IF c = "\n" THEN 10
    ELSE IF c = " " THEN 32
    ELSE IF c = "!" THEN 33
    ELSE IF c = "#" THEN 35
    ELSE IF c = "&" THEN 38
    ELSE IF c = "+" THEN 43
    ELSE IF c = "," THEN 44
    ELSE IF c = "-" THEN 45
    ELSE IF c = "." THEN 46
    ELSE IF c = "/" THEN 47
    ELSE 95   \* "_"

\* a < b on two str
RECURSIVE StrLess(_, _)
StrLess(a, b) ==
    IF b = << >> THEN FALSE
    ELSE IF a = << >> THEN TRUE
    ELSE IF Head(a) = Head(b) THEN StrLess(Tail(a), Tail(b))
    ELSE Ord(Head(a)) < Ord(Head(b))

\* str.lstrip(chars) / str.rstrip(chars) / str.strip(chars)
RECURSIVE LStrip(_, _)
LStrip(s, chars) ==
    IF s # << >> /\ Head(s) \in chars THEN LStrip(Tail(s), chars) ELSE s

RECURSIVE RStrip(_, _)
RStrip(s, chars) ==
    IF s # << >> /\ s[Len(s)] \in chars
    THEN RStrip(SubSeq(s, 1, Len(s) - 1), chars)
    ELSE s

StrStrip(s, chars) == RStrip(LStrip(s, chars), chars)

\* str.split(): the maximal runs of non-whitespace characters, in order
RECURSIVE SplitFrom(_, _, _)
SplitFrom(text, i, word) ==
    IF i > Len(text)
    THEN IF word = << >> THEN << >> ELSE << word >>
    ELSE IF text[i] \in Whitespace
    THEN IF word = << >>
         THEN SplitFrom(text, i + 1, << >>)
         ELSE << word >> \o SplitFrom(text, i + 1, << >>)
    ELSE SplitFrom(text, i + 1, Append(word, text[i]))

StrSplit(text) == SplitFrom(text, 1, << >>)

\* ' '.join(list)
RECURSIVE JoinSpace(_)
JoinSpace(list) ==
    IF list = << >> THEN << >>
    ELSE IF Len(list) = 1 THEN list[1]
    ELSE list[1] \o << " " >> \o JoinSpace(Tail(list))

\* x in list
InList(x, list) == \E i \in 1..Len(list) : list[i] = x

\* Python truth value of a str or list argument that may be None
Falsy(x) == x = None \/ x = << >>

-----------------------------------------------------------------------------
(* Class constants of ATSExtractor                                         *)

STOPWORDS ==
    { <<"a", "n", "d">>, <<"o", "r">>, <<"t", "h", "e">>, <<"w", "i", "t", "h">>,
      <<"f", "r", "o", "m">>, <<"i", "n", "t", "o">>, <<"a", "b", "o", "u", "t">>,
      <<"a", "c", "r", "o", "s", "s">>, <<"w", "i", "t", "h", "i", "n">>, <<"f", "o", "r">>,
      <<"t", "h", "a", "t">>, <<"t", "h", "i", "s">>, <<"y", "o", "u", "r">>,
      <<"w", "i", "l", "l">>, <<"h", "a", "v", "e">>, <<"h", "a", "s">>, <<"a", "r", "e">>,
      <<"w", "a", "s">>, <<"w", "e", "r", "e">>, <<"t", "o">>, <<"i", "n">>, <<"o", "n">>,
      <<"o", "f">>, <<"b", "y">>, <<"a", "s">>, <<"a", "t">>, <<"a", "n">>, <<"j", "o", "b">>,
      <<"r", "o", "l", "e">>,
      <<"r", "e", "s", "p", "o", "n", "s", "i", "b", "i", "l", "i", "t", "i", "e", "s">>,
      <<"r", "e", "q", "u", "i", "r", "e", "m", "e", "n", "t", "s">>,
      <<"s", "k", "i", "l", "l", "s">>, <<"e", "x", "p", "e", "r", "i", "e", "n", "c", "e">>,
      <<"s", "h", "o", "u", "l", "d">>, <<"m", "u", "s", "t">>, <<"w", "o", "u", "l", "d">>,
      <<"c", "o", "u", "l", "d">>, <<"m", "a", "y">>, <<"m", "i", "g", "h", "t">>,
      <<"c", "a", "n">>, <<"a", "b", "l", "e">>, <<"w", "o", "r", "k">>,
      <<"w", "o", "r", "k", "i", "n", "g">>, <<"s", "t", "r", "o", "n", "g">>,
      <<"e", "x", "c", "e", "l", "l", "e", "n", "t">>, <<"g", "o", "o", "d">>,
      <<"k", "n", "o", "w", "l", "e", "d", "g", "e">>,
      <<"u", "n", "d", "e", "r", "s", "t", "a", "n", "d", "i", "n", "g">>,
      <<"a", "b", "i", "l", "i", "t", "y">>, <<"t", "e", "a", "m">>,
      <<"i", "n", "d", "i", "v", "i", "d", "u", "a", "l">>,
      <<"c", "o", "m", "p", "a", "n", "y">>,
      <<"o", "r", "g", "a", "n", "i", "z", "a", "t", "i", "o", "n">> }

\* TECH_CATEGORIES.items(), in the order the dict is written
TECH_CATEGORIES ==
    <<
       [ category |-> "programming",
         terms |->
            << <<"p", "y", "t", "h", "o", "n">>, <<"j", "a", "v", "a">>,
               <<"j", "a", "v", "a", "s", "c", "r", "i", "p", "t">>, <<"c", "+", "+">>,
               <<"c", "#">>, <<"r", "u", "b", "y">>, <<"g", "o">>, <<"r", "u", "s", "t">>,
               <<"s", "w", "i", "f", "t">>, <<"k", "o", "t", "l", "i", "n">> >> ],
       [ category |-> "web",
         terms |->
            << <<"h", "t", "m", "l">>, <<"c", "s", "s">>, <<"r", "e", "a", "c", "t">>,
               <<"a", "n", "g", "u", "l", "a", "r">>, <<"v", "u", "e">>,
               <<"d", "j", "a", "n", "g", "o">>, <<"f", "l", "a", "s", "k">>,
               <<"n", "o", "d", "e">>, <<"e", "x", "p", "r", "e", "s", "s">>,
               <<"s", "p", "r", "i", "n", "g">> >> ],
       [ category |-> "database",
         terms |->
            << <<"s", "q", "l">>, <<"m", "y", "s", "q", "l">>,
               <<"p", "o", "s", "t", "g", "r", "e", "s", "q", "l">>,
               <<"m", "o", "n", "g", "o", "d", "b">>, <<"r", "e", "d", "i", "s">>,
               <<"o", "r", "a", "c", "l", "e">>, <<"n", "o", "s", "q", "l">> >> ],
       [ category |-> "cloud",
         terms |->
            << <<"a", "w", "s">>, <<"a", "z", "u", "r", "e">>, <<"g", "c", "p">>,
               <<"d", "o", "c", "k", "e", "r">>,
               <<"k", "u", "b", "e", "r", "n", "e", "t", "e", "s">>,
               <<"t", "e", "r", "r", "a", "f", "o", "r", "m">>, <<"c", "i", "/", "c", "d">> >> ],
       [ category |-> "data_science",
         terms |->
            << <<"m", "a", "c", "h", "i", "n", "e">>,
               <<"l", "e", "a", "r", "n", "i", "n", "g">>, <<"a", "i">>,
               <<"p", "y", "t", "o", "r", "c", "h">>,
               <<"t", "e", "n", "s", "o", "r", "f", "l", "o", "w">>,
               <<"p", "a", "n", "d", "a", "s">>, <<"n", "u", "m", "p", "y">> >> ],
       [ category |-> "tools",
         terms |->
            << <<"g", "i", "t">>, <<"j", "e", "n", "k", "i", "n", "s">>,
               <<"j", "i", "r", "a">>, <<"c", "o", "n", "f", "l", "u", "e", "n", "c", "e">>,
               <<"s", "l", "a", "c", "k">>, <<"v", "s">>, <<"c", "o", "d", "e">>,
               <<"i", "n", "t", "e", "l", "l", "i", "j">> >> ]
    >>

-----------------------------------------------------------------------------
(* ATSExtractor.clean_text                                                 *)

\* re.sub(r'[^A-Za-z0-9\s\-/&+]', ' ', text)
SubSpecial(text) ==
    [ i \in 1..Len(text) |-> IF text[i] \in KeptChars THEN text[i] ELSE " " ]

\* re.sub(r'\s+', ' ', text)
RECURSIVE CollapseFrom(_, _)
CollapseFrom(text, i) ==
    IF i > Len(text) THEN << >>
    ELSE IF text[i] \in Whitespace
    THEN IF i > 1 /\ text[i - 1] \in Whitespace
         THEN CollapseFrom(text, i + 1)
         ELSE << " " >> \o CollapseFrom(text, i + 1)
    ELSE << text[i] >> \o CollapseFrom(text, i + 1)

CollapseWhitespace(text) == CollapseFrom(text, 1)

StrLower(text) == [ i \in 1..Len(text) |-> ToLower(text[i]) ]

clean_text(text) ==
    IF Falsy(text) THEN << >>
    ELSE StrStrip(StrLower(CollapseWhitespace(SubSpecial(text))), Whitespace)

-----------------------------------------------------------------------------
(* ATSExtractor.tokenize                                                   *)

\* tokenize keeping the stopwords
TokenOfKeepingStopwords(word) ==
    IF Len(word) >= 3
    THEN LET stripped == StrStrip(word, StripChars)
         IN  IF Len(stripped) >= 2 THEN << stripped >> ELSE << >>
    ELSE << >>

\* tokenize taking words of any length
TokenOfAnyLength(word) ==
    IF word \notin STOPWORDS
    THEN LET stripped == StrStrip(word, StripChars)
         IN  IF Len(stripped) >= 2 THEN << stripped >> ELSE << >>
    ELSE << >>

\* tokenize without the strip of line 49
TokenOfUnstripped(word) ==
    IF Len(word) >= 3 /\ word \notin STOPWORDS
    THEN << word >>
    ELSE << >>

\* one pass of the loop body: the tokens a word adds
TokenOf(word) ==
    IF Len(word) >= 3 /\ word \notin STOPWORDS
    THEN LET stripped == StrStrip(word, StripChars)
         IN  IF Len(stripped) >= 2 THEN << stripped >> ELSE << >>
    ELSE << >>

RECURSIVE TokenizeWords(_)
TokenizeWords(words) ==
    IF words = << >> THEN << >>
    ELSE TokenOf(Head(words)) \o TokenizeWords(Tail(words))

tokenize(text) == TokenizeWords(StrSplit(clean_text(text)))

-----------------------------------------------------------------------------
(* ATSExtractor.extract_keywords                                           *)

\* Counter(tokens).items(): (word, count) pairs in order of first occurrence
CountOf(word, list) == Cardinality({ i \in 1..Len(list) : list[i] = word })

RECURSIVE CounterItems(_, _)
CounterItems(list, i) ==
    IF i > Len(list) THEN << >>
    ELSE IF \E j \in 1..(i - 1) : list[j] = list[i]
    THEN CounterItems(list, i + 1)
    ELSE << [ word |-> list[i], count |-> CountOf(list[i], list) ] >>
             \o CounterItems(list, i + 1)

\* the inner loop over TECH_CATEGORIES.items(), with its break
RECURSIVE BoostFrom(_, _, _)
BoostFrom(word, score, c) ==
    IF c > Len(TECH_CATEGORIES) THEN score
    ELSE IF InList(word, TECH_CATEGORIES[c].terms) THEN score * 2
    ELSE BoostFrom(word, score, c + 1)

\* the boost written as score += 2
BoostedScoreAdding(word, count) ==
    IF BoostFrom(word, count, 1) = count THEN count ELSE count + 2

BoostedScore(word, count) == BoostFrom(word, count, 1)

ScoreItems(items) ==
    [ i \in 1..Len(items) |->
        [ word  |-> items[i].word,
          score |-> BoostedScore(items[i].word, items[i].count),
          count |-> items[i].count ] ]

\* the sort key without the raw count: (-score, word)
KeyLessNoCount(a, b) ==
    \/ a.score > b.score
    \/ a.score = b.score /\ StrLess(a.word, b.word)

\* the sort key (-score, -count, word), compared as Python compares tuples
KeyLess(a, b) ==
    \/ a.score > b.score
    \/ a.score = b.score /\ a.count > b.count
    \/ a.score = b.score /\ a.count = b.count /\ StrLess(a.word, b.word)

\* list.sort(key=...): a stable sort, here by insertion
RECURSIVE InsertSorted(_, _)
InsertSorted(x, sorted) ==
    IF sorted = << >> THEN << x >>
    ELSE IF KeyLess(x, Head(sorted)) THEN << x >> \o sorted
    ELSE << Head(sorted) >> \o InsertSorted(x, Tail(sorted))

RECURSIVE SortFrom(_, _)
SortFrom(list, i) ==
    IF i = 0 THEN << >>
    ELSE InsertSorted(list[i], SortFrom(list, i - 1))

SortScored(list) == SortFrom(list, Len(list))

\* list[:n] for n >= 0
Slice(list, n) == SubSeq(list, 1, IF n < Len(list) THEN n ELSE Len(list))

\* the loop leaving on len(keywords) > top_n
RECURSIVE UniqueFromOffByOne(_, _, _, _)
UniqueFromOffByOne(candidates, i, kws, n) ==
    IF i > Len(candidates) THEN kws
    ELSE LET word == candidates[i].word
             kws2 == IF InList(word, kws) THEN kws ELSE Append(kws, word)
         IN  IF Len(kws2) > n THEN kws2
             ELSE UniqueFromOffByOne(candidates, i + 1, kws2, n)

\* the "Get unique keywords" loop over scored_keywords[:top_n*2]
RECURSIVE UniqueFrom(_, _, _, _)
UniqueFrom(candidates, i, kws, n) ==
    IF i > Len(candidates) THEN kws
    ELSE LET word == candidates[i].word
             kws2 == IF InList(word, kws) THEN kws ELSE Append(kws, word)
         IN  IF Len(kws2) >= n THEN kws2
             ELSE UniqueFrom(candidates, i + 1, kws2, n)

\* the local scored_keywords after the sort (empty on the early returns)
SortedScored(job_desc) ==
    IF Falsy(job_desc) \/ tokenize(job_desc) = << >> THEN << >>
    ELSE SortScored(ScoreItems(CounterItems(tokenize(job_desc), 1)))

extract_keywords(job_desc, n) ==
    IF Falsy(job_desc) THEN << >>
    ELSE IF tokenize(job_desc) = << >> THEN << >>
    ELSE UniqueFrom(Slice(SortedScored(job_desc), n * 2), 1, << >>, n)

\* the default of the top_n parameter
DefaultTopN == 30

-----------------------------------------------------------------------------
(* dicts and the object heap                                               *)

\* the dict {}
EmptyDict == [ k \in {} |-> {} ]

\* d.get(key, default)
DictGet(d, key, default) == IF key \in DOMAIN d THEN d[key] ELSE default

\* d[key] = value
DictSet(d, key, value) ==
    [ k \in (DOMAIN d) \cup { key } |-> IF k = key THEN value ELSE d[k] ]

\* isinstance(x, list) for a field that holds a list or null
IsList(x) == x # None

-----------------------------------------------------------------------------
(* ATSExtractor.merge_keywords                                             *)

\* [kw for kw in keywords if kw in terms]
RECURSIVE KeywordsIn(_, _)
KeywordsIn(kws, terms) ==
    IF kws = << >> THEN << >>
    ELSE IF InList(Head(kws), terms)
    THEN << Head(kws) >> \o KeywordsIn(Tail(kws), terms)
    ELSE KeywordsIn(Tail(kws), terms)

\* the loop keeping the categories without a keyword
RECURSIVE CategorizeKeepingEmpty(_, _, _)
CategorizeKeepingEmpty(kws, c, categorized) ==
    IF c > Len(TECH_CATEGORIES) THEN categorized
    ELSE CategorizeKeepingEmpty(kws, c + 1,
             DictSet(categorized, TECH_CATEGORIES[c].category,
                     KeywordsIn(kws, TECH_CATEGORIES[c].terms)))

\* the loop that fills the dict categorized
RECURSIVE CategorizeFrom(_, _, _)
CategorizeFrom(kws, c, categorized) ==
    IF c > Len(TECH_CATEGORIES) THEN categorized
    ELSE LET category_keywords == KeywordsIn(kws, TECH_CATEGORIES[c].terms)
         IN  IF category_keywords # << >>
             THEN CategorizeFrom(kws, c + 1,
                      DictSet(categorized, TECH_CATEGORIES[c].category,
                              category_keywords))
             ELSE CategorizeFrom(kws, c + 1, categorized)

\* profile_copy = profile: no copy, the same object
CopyDictAlias(h, ref) == [ heap |-> h, ref |-> ref ]

\* profile_copy = profile.copy(): a new object holding the same items
CopyDict(h, ref) == [ heap |-> Append(h, h[ref]), ref |-> Len(h) + 1 ]

\* merge_keywords extending the keyword list the profile already holds
merge_keywords_extending(h, ref, kws) ==
    LET c   == CopyDict(h, ref)
        all == DictGet(c.heap[c.ref], "ats_keywords", << >>) \o kws
        d1  == DictSet(c.heap[c.ref], "ats_keywords", all)
        d2  == DictSet(d1, "ats_keyword_categories",
                       CategorizeFrom(all, 1, EmptyDict))
    IN  [ heap |-> [ c.heap EXCEPT ![c.ref] = d2 ], ref |-> c.ref ]

\* merge_keywords on the heap h with the profile object ref: the heap after
\* the call and the reference returned
merge_keywords(h, ref, kws) ==
    LET c  == CopyDict(h, ref)
        d1 == DictSet(c.heap[c.ref], "ats_keywords", kws)
        d2 == DictSet(d1, "ats_keyword_categories",
                      CategorizeFrom(kws, 1, EmptyDict))
    IN  [ heap |-> [ c.heap EXCEPT ![c.ref] = d2 ], ref |-> c.ref ]

-----------------------------------------------------------------------------
(* ATSExtractor.keyword_match_score                                        *)

\* set(list)
SetOf(list) == Range(list)

\* profile_skills.update(tokenize(' '.join(field))) guarded by isinstance
FieldTokens(field) ==
    IF IsList(field) THEN SetOf(tokenize(JoinSpace(field))) ELSE {}

\* the loop over profile.get("experience", [])
RECURSIVE ExperienceTokens(_)
ExperienceTokens(experience) ==
    IF experience = << >> THEN {}
    ELSE LET exp == Head(experience)
         IN  FieldTokens(DictGet(exp, "actions", << >>))
                 \cup FieldTokens(DictGet(exp, "outcomes", << >>))
                 \cup ExperienceTokens(Tail(experience))

\* the loop over profile.get("projects", [])
RECURSIVE ProjectTokens(_)
ProjectTokens(projects) ==
    IF projects = << >> THEN {}
    ELSE FieldTokens(DictGet(Head(projects), "technologies", << >>))
             \cup ProjectTokens(Tail(projects))

\* the profile tokens with the soft skills among them
ProfileSkillsWithSoft(p) ==
    FieldTokens(DictGet(DictGet(p, "skills", EmptyDict), "technical", << >>))
        \cup FieldTokens(DictGet(DictGet(p, "skills", EmptyDict), "soft", << >>))
        \cup ExperienceTokens(DictGet(p, "experience", << >>))
        \cup ProjectTokens(DictGet(p, "projects", << >>))

\* profile_skills assigned, not updated, by the projects loop
ProfileSkillsReassigned(p) ==
    IF ProjectTokens(DictGet(p, "projects", << >>)) # {}
    THEN ProjectTokens(DictGet(p, "projects", << >>))
    ELSE FieldTokens(DictGet(DictGet(p, "skills", EmptyDict), "technical", << >>))
             \cup ExperienceTokens(DictGet(p, "experience", << >>))

\* the set profile_skills
ProfileSkills(p) ==
    FieldTokens(DictGet(DictGet(p, "skills", EmptyDict), "technical", << >>))
        \cup ExperienceTokens(DictGet(p, "experience", << >>))
        \cup ProjectTokens(DictGet(p, "projects", << >>))

\* the inner loop over TECH_CATEGORIES.values() that sets is_technical
RECURSIVE IsTechnicalFrom(_, _)
IsTechnicalFrom(keyword, c) ==
    IF c > Len(TECH_CATEGORIES) THEN FALSE
    ELSE IF InList(keyword, TECH_CATEGORIES[c].terms) THEN TRUE
    ELSE IsTechnicalFrom(keyword, c + 1)

\* every match worth one point
KeywordPointsFlat(keyword, overlap) ==
    IF keyword \in overlap THEN 1 ELSE 0

\* a technical match worth three points
KeywordPointsTriple(keyword, overlap) ==
    IF keyword \in overlap
    THEN IF IsTechnicalFrom(keyword, 1) THEN 3 ELSE 1
    ELSE 0

\* the technical test made before the overlap test
KeywordPointsUnmatched(keyword, overlap) ==
    IF IsTechnicalFrom(keyword, 1) THEN 2
    ELSE IF keyword \in overlap THEN 1 ELSE 0

\* the points one job keyword adds to total_score
KeywordPoints(keyword, overlap) ==
    IF keyword \in overlap
    THEN IF IsTechnicalFrom(keyword, 1) THEN 2 ELSE 1
    ELSE 0

\* the loop "for keyword in jd_keywords" accumulating total_score
RECURSIVE TotalScore(_, _)
TotalScore(jd_keywords, overlap) ==
    IF jd_keywords = {} THEN 0
    ELSE LET keyword == CHOOSE k \in jd_keywords : TRUE
         IN  KeywordPoints(keyword, overlap)
                 + TotalScore(jd_keywords \ { keyword }, overlap)

\* round((total_score / max_score) * 100, 1) in tenths; round() takes the
\* nearest tenth and, exactly halfway, the even one.  The halfway quotients
\* (max_score a multiple of 16) are exact in binary floating point.
RoundPercent(total_score, max_score) ==
    LET q == (1000 * total_score) \div max_score
        r == (1000 * total_score) % max_score
    IN  IF 2 * r < max_score THEN q
        ELSE IF 2 * r > max_score THEN q + 1
        ELSE IF q % 2 = 0 THEN q ELSE q + 1

\* What a call leaves behind: the value returned (tenths of a percent), the
\* locals, and whether the division was reached.
Returned(score, kws, skills, total, max, divided) ==
    [ score |-> score, jd_keywords |-> kws, profile_skills |-> skills,
      total_score |-> total, max_score |-> max, divided |-> divided,
      error |-> "" ]

\* A call that ends in an exception returns nothing.
Raised(error, kws, skills, total, max) ==
    [ score |-> -1, jd_keywords |-> kws, profile_skills |-> skills,
      total_score |-> total, max_score |-> max, divided |-> TRUE,
      error |-> error ]

\* keyword_match_score without its three zero guards
keyword_match_score_unguarded(p, job_desc) ==
    LET jd_keywords == IF Falsy(job_desc) THEN {}
                       ELSE SetOf(extract_keywords(job_desc, DefaultTopN))
        profile_skills == ProfileSkills(p)
        overlap     == jd_keywords \cap profile_skills
        total_score == TotalScore(jd_keywords, overlap)
        max_score   == Cardinality(jd_keywords) * 2
    IN  IF max_score = 0
        THEN Raised("ZeroDivisionError", jd_keywords, profile_skills,
                    total_score, max_score)
        ELSE Returned(RoundPercent(total_score, max_score),
                      jd_keywords, profile_skills,
                      total_score, max_score, TRUE)

\* keyword_match_score reading profile["skills"]["technical"]
keyword_match_score_indexing(p, job_desc) ==
    IF "skills" \notin DOMAIN p \/ "technical" \notin DOMAIN p["skills"]
    THEN Raised("KeyError", {}, {}, 0, 0)
    ELSE LET jd_keywords == IF Falsy(job_desc) THEN {}
                            ELSE SetOf(extract_keywords(job_desc, DefaultTopN))
             profile_skills == ProfileSkills(p)
             overlap     == jd_keywords \cap profile_skills
             total_score == TotalScore(jd_keywords, overlap)
             max_score   == Cardinality(jd_keywords) * 2
         IN  IF max_score = 0
             THEN Returned(0, jd_keywords, profile_skills, total_score,
                           max_score, FALSE)
             ELSE Returned(RoundPercent(total_score, max_score),
                           jd_keywords, profile_skills,
                           total_score, max_score, TRUE)

keyword_match_score(p, job_desc) ==
    IF Falsy(job_desc) THEN Returned(0, {}, {}, 0, 0, FALSE)
    ELSE LET jd_keywords == SetOf(extract_keywords(job_desc, DefaultTopN))
         IN  IF jd_keywords = {} THEN Returned(0, {}, {}, 0, 0, FALSE)
             ELSE LET profile_skills == ProfileSkills(p)
                      overlap     == jd_keywords \cap profile_skills
                      total_score == TotalScore(jd_keywords, overlap)
                      max_score   == Cardinality(jd_keywords) * 2
                  IN  IF max_score = 0
                      THEN Returned(0, jd_keywords, profile_skills,
                                    total_score, max_score, FALSE)
                      ELSE Returned(RoundPercent(total_score, max_score),
                                    jd_keywords, profile_skills,
                                    total_score, max_score, TRUE)

-----------------------------------------------------------------------------
(* LLMGenerator (src/utils/Utills/llm.py): strings and JSON values         *)

\* s.startswith(prefix)
StartsWith(s, prefix) ==
    Len(s) >= Len(prefix) /\ SubSeq(s, 1, Len(prefix)) = prefix

\* sub in s
Contains(s, sub) ==
    \E i \in 1..(Len(s) - Len(sub) + 1) : SubSeq(s, i, i + Len(sub) - 1) = sub

\* sep.join(list)
RECURSIVE JoinWith(_, _)
JoinWith(list, sep) ==
    IF list = << >> THEN << >>
    ELSE IF Len(list) = 1 THEN list[1]
    ELSE list[1] \o sep \o JoinWith(Tail(list), sep)

\* str(n) of a non-negative int
RECURSIVE IntToStr(_)
IntToStr(n) ==
    IF n < 10 THEN << Digits[n + 1] >>
    ELSE IntToStr(n \div 10) \o << Digits[(n % 10) + 1] >>

\* template.format(...) and the f-strings: the literal parts with one field
\* value between each two of them
RECURSIVE FormatParts(_, _)
FormatParts(parts, fields) ==
    IF fields = << >> THEN parts[1]
    ELSE parts[1] \o fields[1] \o FormatParts(Tail(parts), Tail(fields))

\* a value of response.json(): null, a str, an int, a list or a dict
JNull == [ type |-> "null" ]

JStr(s) == [ type |-> "str", str |-> s ]

JInt(n) == [ type |-> "int", int |-> n ]

JList(items) == [ type |-> "list", items |-> items ]

JDict(d) == [ type |-> "dict", dict |-> d ]

\* a response body that is not JSON: response.json() raises
NotJson == [ type |-> "invalid" ]

\* type(x).__name__
TypeName(x) ==
    IF x.type = "null" THEN << "N", "o", "n", "e", "T", "y", "p", "e" >>
    ELSE IF x.type = "str" THEN << "s", "t", "r" >>
    ELSE IF x.type = "int" THEN << "i", "n", "t" >>
    ELSE IF x.type = "list" THEN << "l", "i", "s", "t" >>
    ELSE << "d", "i", "c", "t" >>

\* an expression either has a value or raises an exception with a message
JOk(v) == [ ok |-> TRUE, value |-> v, message |-> << >> ]

JErr(message) == [ ok |-> FALSE, value |-> JNull, message |-> message ]

S_ListIndex ==
    << "l", "i", "s", "t", " ", "i", "n", "d", "e", "x", " ", "o", "u", "t", " ", "o", "f",
       " ", "r", "a", "n", "g", "e" >>

S_StringIndex ==
    << "s", "t", "r", "i", "n", "g", " ", "i", "n", "d", "e", "x", " ", "o", "u", "t", " ",
       "o", "f", " ", "r", "a", "n", "g", "e" >>

S_NoAttributeGet ==
    << "'", " ", "o", "b", "j", "e", "c", "t", " ", "h", "a", "s", " ", "n", "o", " ", "a",
       "t", "t", "r", "i", "b", "u", "t", "e", " ", "'", "g", "e", "t", "'" >>

S_NotSubscriptable ==
    << "'", " ", "o", "b", "j", "e", "c", "t", " ", "i", "s", " ", "n", "o", "t", " ", "s",
       "u", "b", "s", "c", "r", "i", "p", "t", "a", "b", "l", "e" >>

S_Quote == << "'" >>

S_Zero == << "0" >>

S_ExpectingValue ==
    << "E", "x", "p", "e", "c", "t", "i", "n", "g", " ", "v", "a", "l", "u", "e", ":", " ",
       "l", "i", "n", "e", " ", "1", " ", "c", "o", "l", "u", "m", "n", " ", "1", " ", "(",
       "c", "h", "a", "r", " ", "0", ")" >>

\* r.get(key, default) on the value of r, when r has one
JGet(r, key, default) ==
    IF ~r.ok THEN r
    ELSE IF r.value.type = "dict"
    THEN JOk(DictGet(r.value.dict, key, default))
    ELSE JErr(S_Quote \o TypeName(r.value) \o S_NoAttributeGet)

\* r[0] on the value of r, when r has one (the keys of a JSON object are
\* str, so 0 is never one of them)
JFirst(r) ==
    IF ~r.ok THEN r
    ELSE IF r.value.type = "list"
    THEN IF r.value.items # << >> THEN JOk(r.value.items[1])
         ELSE JErr(S_ListIndex)
    ELSE IF r.value.type = "str"
    THEN IF r.value.str # << >> THEN JOk(JStr(<< r.value.str[1] >>))
         ELSE JErr(S_StringIndex)
    ELSE IF r.value.type = "dict" THEN JErr(S_Zero)
    ELSE JErr(S_Quote \o TypeName(r.value) \o S_NotSubscriptable)

\* data.get("choices", [{}])[0].get("message", {}).get("content", "")
ResponseContent(body) ==
    JGet(JGet(JFirst(JGet(JOk(body), "choices",
                          JList(<< JDict(EmptyDict) >>))),
              "message", JDict(EmptyDict)),
         "content", JStr(<< >>))

-----------------------------------------------------------------------------
(* LLMGenerator: templates and prompts                                     *)

S_LLMResponse == << "[", "L", "L", "M", " ", "R", "E", "S", "P", "O", "N", "S", "E", "]" >>

S_Error == << "E", "r", "r", "o", "r", ":" >>

S_APIError == << "A", "P", "I", " ", "E", "r", "r", "o", "r", ":" >>

S_Ellipsis == << ".", ".", "." >>

S_dev == << "d", "e", "v" >>

S_CommaSpace == << ",", " " >>

S_SemicolonSpace == << ";", " " >>

S_And == << " ", "a", "n", "d", " " >>

S_professional == << "p", "r", "o", "f", "e", "s", "s", "i", "o", "n", "a", "l" >>

S_RelevantIndustry ==
    << "r", "e", "l", "e", "v", "a", "n", "t", " ", "i", "n", "d", "u", "s", "t", "r",
       "y" >>

S_RelevantTechnicalSkills ==
    << "r", "e", "l", "e", "v", "a", "n", "t", " ", "t", "e", "c", "h", "n", "i", "c", "a",
       "l", " ", "s", "k", "i", "l", "l", "s" >>

S_AchievingResults ==
    << "a", "c", "h", "i", "e", "v", "i", "n", "g", " ", "m", "e", "a", "s", "u", "r", "a",
       "b", "l", "e", " ", "r", "e", "s", "u", "l", "t", "s" >>

S_medium == << "m", "e", "d", "i", "u", "m" >>

S_short == << "s", "h", "o", "r", "t" >>

S_long == << "l", "o", "n", "g" >>

S_ShortInstruction ==
    << "2", "-", "3", " ", "s", "e", "n", "t", "e", "n", "c", "e", "s", ",", " ", "v", "e",
       "r", "y", " ", "c", "o", "n", "c", "i", "s", "e" >>

S_MediumInstruction ==
    << "3", "-", "4", " ", "s", "e", "n", "t", "e", "n", "c", "e", "s", ",", " ", "b", "a",
       "l", "a", "n", "c", "e", "d", " ", "d", "e", "t", "a", "i", "l" >>

S_LongInstruction ==
    << "4", "-", "5", " ", "s", "e", "n", "t", "e", "n", "c", "e", "s", ",", " ", "c", "o",
       "m", "p", "r", "e", "h", "e", "n", "s", "i", "v", "e" >>

S_ThreePlus == << "3", "+" >>

S_Professional == << "P", "r", "o", "f", "e", "s", "s", "i", "o", "n", "a", "l" >>

S_Company == << "C", "o", "m", "p", "a", "n", "y" >>

S_VariousResponsibilities ==
    << "v", "a", "r", "i", "o", "u", "s", " ", "r", "e", "s", "p", "o", "n", "s", "i", "b",
       "i", "l", "i", "t", "i", "e", "s" >>

S_PositiveResults ==
    << "p", "o", "s", "i", "t", "i", "v", "e", " ", "r", "e", "s", "u", "l", "t", "s" >>

S_IncludeKeywords ==
    << " ", "N", "a", "t", "u", "r", "a", "l", "l", "y", " ", "i", "n", "c", "l", "u", "d",
       "e", " ", "t", "h", "e", "s", "e", " ", "k", "e", "y", "w", "o", "r", "d", "s", ":",
       " " >>

S_RelevantTechnology ==
    << "r", "e", "l", "e", "v", "a", "n", "t", " ", "t", "e", "c", "h", "n", "o", "l", "o",
       "g", "y" >>

S_Candidate == << "C", "a", "n", "d", "i", "d", "a", "t", "e" >>

S_ThePosition == << "t", "h", "e", " ", "p", "o", "s", "i", "t", "i", "o", "n" >>

S_YourOrganization ==
    << "y", "o", "u", "r", " ", "o", "r", "g", "a", "n", "i", "z", "a", "t", "i", "o",
       "n" >>

S_RelevantSkills ==
    << "r", "e", "l", "e", "v", "a", "n", "t", " ", "s", "k", "i", "l", "l", "s" >>

S_NotableAccomplishments ==
    << "n", "o", "t", "a", "b", "l", "e", " ", "a", "c", "c", "o", "m", "p", "l", "i", "s",
       "h", "m", "e", "n", "t", "s" >>

S_VariousProjects ==
    << "v", "a", "r", "i", "o", "u", "s", " ", "p", "r", "o", "j", "e", "c", "t", "s" >>

S_TheIndustry == << "t", "h", "e", " ", "i", "n", "d", "u", "s", "t", "r", "y" >>

\* the literal text of the template between its fields
\* {role}, {experience}, {industry}, {skills}, {achievements}, {role}
SummaryFallbackParts ==
    <<
       << "R", "e", "s", "u", "l", "t", "s", "-", "d", "r", "i", "v", "e", "n", " " >>,
       << " ", "w", "i", "t", "h", " " >>,
       << " ", "y", "e", "a", "r", "s", " ", "o", "f", " ", "e", "x", "p", "e", "r", "i",
          "e", "n", "c", "e", " ", "i", "n", " " >>,
       << ".", " ", "\n", " ", " ", " ", " ", " ", " ", " ", " ", " ", " ", " ", " ", "S",
          "k", "i", "l", "l", "e", "d", " ", "i", "n", " " >>,
       << ".", " ", "P", "r", "o", "v", "e", "n", " ", "t", "r", "a", "c", "k", " ", "r",
          "e", "c", "o", "r", "d", " ", "o", "f", " " >>,
       << ".", " ", "S", "e", "e", "k", "i", "n", "g", " ", "t", "o", " ", "l", "e", "v",
          "e", "r", "a", "g", "e", " ", "e", "x", "p", "e", "r", "t", "i", "s", "e", " ",
          "\n", " ", " ", " ", " ", " ", " ", " ", " ", " ", " ", " ", " ", "i", "n", " ",
          "a", " ", "c", "h", "a", "l", "l", "e", "n", "g", "i", "n", "g", " " >>,
       << " ", "p", "o", "s", "i", "t", "i", "o", "n", "." >>
    >>

\* the literal text of the template between its fields
\* {technology}
BulletsFallbackParts ==
    <<
       << "U+2022", " ", "D", "e", "v", "e", "l", "o", "p", "e", "d", " ", "a", "n", "d",
          " ", "i", "m", "p", "l", "e", "m", "e", "n", "t", "e", "d", " " >>,
       << " ", "s", "o", "l", "u", "t", "i", "o", "n", "s", " ", "i", "m", "p", "r", "o",
          "v", "i", "n", "g", " ", "e", "f", "f", "i", "c", "i", "e", "n", "c", "y", " ",
          "b", "y", " ", "2", "5", "%", "\n", " ", " ", " ", " ", " ", " ", " ", " ", " ",
          " ", " ", " ", "U+2022", " ", "L", "e", "d", " ", "c", "r", "o", "s", "s", "-",
          "f", "u", "n", "c", "t", "i", "o", "n", "a", "l", " ", "t", "e", "a", "m", "s",
          " ", "t", "o", " ", "d", "e", "l", "i", "v", "e", "r", " ", "p", "r", "o", "j",
          "e", "c", "t", "s", " ", "1", "5", "%", " ", "a", "h", "e", "a", "d", " ", "o",
          "f", " ", "s", "c", "h", "e", "d", "u", "l", "e", "\n", " ", " ", " ", " ", " ",
          " ", " ", " ", " ", " ", " ", " ", "U+2022", " ", "O", "p", "t", "i", "m", "i",
          "z", "e", "d", " ", "p", "r", "o", "c", "e", "s", "s", "e", "s", " ", "r", "e",
          "s", "u", "l", "t", "i", "n", "g", " ", "i", "n", " ", "3", "0", "%", " ", "c",
          "o", "s", "t", " ", "r", "e", "d", "u", "c", "t", "i", "o", "n", "\n", " ", " ",
          " ", " ", " ", " ", " ", " ", " ", " ", " ", " ", "U+2022", " ", "C", "o", "l",
          "l", "a", "b", "o", "r", "a", "t", "e", "d", " ", "w", "i", "t", "h", " ", "s",
          "t", "a", "k", "e", "h", "o", "l", "d", "e", "r", "s", " ", "t", "o", " ", "d",
          "e", "f", "i", "n", "e", " ", "r", "e", "q", "u", "i", "r", "e", "m", "e", "n",
          "t", "s", " ", "a", "n", "d", " ", "d", "e", "l", "i", "v", "e", "r", "a", "b",
          "l", "e", "s" >>
    >>

\* the literal text of the template between its fields
\* {role}, {industry}, {skills}, {achievements}, {name}
CoverLetterFallbackParts ==
    <<
       << "D", "e", "a", "r", " ", "H", "i", "r", "i", "n", "g", " ", "M", "a", "n", "a",
          "g", "e", "r", ",", "\n", "\n", " ", " ", " ", " ", " ", " ", " ", " ", " ", " ",
          " ", " ", "I", " ", "a", "m", " ", "w", "r", "i", "t", "i", "n", "g", " ", "t",
          "o", " ", "e", "x", "p", "r", "e", "s", "s", " ", "m", "y", " ", "i", "n", "t",
          "e", "r", "e", "s", "t", " ", "i", "n", " ", "t", "h", "e", " " >>,
       << " ", "p", "o", "s", "i", "t", "i", "o", "n", ".", " ", "W", "i", "t", "h", " ",
          "m", "y", " ", "b", "a", "c", "k", "g", "r", "o", "u", "n", "d", " ", "i", "n",
          " " >>,
       << " ", "\n", " ", " ", " ", " ", " ", " ", " ", " ", " ", " ", " ", " ", "a", "n",
          "d", " ", "e", "x", "p", "e", "r", "t", "i", "s", "e", " ", "i", "n", " " >>,
       << ",", " ", "I", " ", "a", "m", " ", "c", "o", "n", "f", "i", "d", "e", "n", "t",
          " ", "i", "n", " ", "m", "y", " ", "a", "b", "i", "l", "i", "t", "y", " ", "t",
          "o", " ", "c", "o", "n", "t", "r", "i", "b", "u", "t", "e", " ", "t", "o", " ",
          "y", "o", "u", "r", " ", "t", "e", "a", "m", ".", "\n", "\n", " ", " ", " ", " ",
          " ", " ", " ", " ", " ", " ", " ", " ", "M", "y", " ", "e", "x", "p", "e", "r",
          "i", "e", "n", "c", "e", " ", "i", "n", "c", "l", "u", "d", "e", "s", " " >>,
       << ",", " ", "w", "h", "i", "c", "h", " ", "a", "l", "i", "g", "n", " ", "w", "e",
          "l", "l", " ", "w", "i", "t", "h", " ", "y", "o", "u", "r", " ", "r", "e", "q",
          "u", "i", "r", "e", "m", "e", "n", "t", "s", ".", "\n", "\n", " ", " ", " ", " ",
          " ", " ", " ", " ", " ", " ", " ", " ", "I", " ", "l", "o", "o", "k", " ", "f",
          "o", "r", "w", "a", "r", "d", " ", "t", "o", " ", "d", "i", "s", "c", "u", "s",
          "s", "i", "n", "g", " ", "h", "o", "w", " ", "I", " ", "c", "a", "n", " ", "a",
          "d", "d", " ", "v", "a", "l", "u", "e", " ", "t", "o", " ", "y", "o", "u", "r",
          " ", "o", "r", "g", "a", "n", "i", "z", "a", "t", "i", "o", "n", ".", "\n", "\n",
          " ", " ", " ", " ", " ", " ", " ", " ", " ", " ", " ", " ", "S", "i", "n", "c",
          "e", "r", "e", "l", "y", ",", "\n", " ", " ", " ", " ", " ", " ", " ", " ", " ",
          " ", " ", " " >>,
       << >>
    >>

\* the literal text of the prompt between its fields
\* {tone}, {role}, {industry}, {role}, {industry}, {skills_text}, {achievements_text}, {tone}, {length}, {self._get_length_instruction(length)}, {role}
SummaryPromptParts ==
    <<
       << "W", "r", "i", "t", "e", " ", "a", " " >>,
       << " ", "p", "r", "o", "f", "e", "s", "s", "i", "o", "n", "a", "l", " ", "s", "u",
          "m", "m", "a", "r", "y", " ", "f", "o", "r", " ", "a", " " >>,
       << " ", "i", "n", " ", "t", "h", "e", " " >>,
       << " ", "i", "n", "d", "u", "s", "t", "r", "y", ".", "\n", " ", " ", " ", " ", " ",
          " ", " ", " ", "\n", " ", " ", " ", " ", " ", " ", " ", " ", "K", "e", "y", " ",
          "I", "n", "f", "o", "r", "m", "a", "t", "i", "o", "n", ":", "\n", " ", " ", " ",
          " ", " ", " ", " ", " ", "-", " ", "R", "o", "l", "e", ":", " " >>,
       << "\n", " ", " ", " ", " ", " ", " ", " ", " ", "-", " ", "I", "n", "d", "u", "s",
          "t", "r", "y", ":", " " >>,
       << "\n", " ", " ", " ", " ", " ", " ", " ", " ", "-", " ", "T", "o", "p", " ", "S",
          "k", "i", "l", "l", "s", ":", " " >>,
       << "\n", " ", " ", " ", " ", " ", " ", " ", " ", "-", " ", "K", "e", "y", " ", "A",
          "c", "h", "i", "e", "v", "e", "m", "e", "n", "t", "s", ":", " " >>,
       << "\n", " ", " ", " ", " ", " ", " ", " ", " ", "-", " ", "D", "e", "s", "i", "r",
          "e", "d", " ", "T", "o", "n", "e", ":", " " >>,
       << "\n", " ", " ", " ", " ", " ", " ", " ", " ", "-", " ", "L", "e", "n", "g", "t",
          "h", ":", " " >>,
       << "\n", " ", " ", " ", " ", " ", " ", " ", " ", "\n", " ", " ", " ", " ", " ", " ",
          " ", " ", "R", "e", "q", "u", "i", "r", "e", "m", "e", "n", "t", "s", ":", "\n",
          " ", " ", " ", " ", " ", " ", " ", " ", "-", " " >>,
       << "\n", " ", " ", " ", " ", " ", " ", " ", " ", "-", " ", "I", "n", "c", "l", "u",
          "d", "e", " ", "m", "e", "a", "s", "u", "r", "a", "b", "l", "e", " ", "r", "e",
          "s", "u", "l", "t", "s", "\n", " ", " ", " ", " ", " ", " ", " ", " ", "-", " ",
          "U", "s", "e", " ", "i", "n", "d", "u", "s", "t", "r", "y", "-", "r", "e", "l",
          "e", "v", "a", "n", "t", " ", "t", "e", "r", "m", "i", "n", "o", "l", "o", "g",
          "y", "\n", " ", " ", " ", " ", " ", " ", " ", " ", "-", " ", "A", "v", "o", "i",
          "d", " ", "c", "l", "i", "c", "h", "U+00E9", "s", " ", "a", "n", "d", " ", "g",
          "e", "n", "e", "r", "i", "c", " ", "p", "h", "r", "a", "s", "e", "s", "\n", " ",
          " ", " ", " ", " ", " ", " ", " ", "-", " ", "T", "a", "i", "l", "o", "r", " ",
          "t", "o", " " >>,
       << " ", "p", "o", "s", "i", "t", "i", "o", "n", "\n", " ", " ", " ", " ", " ", " ",
          " ", " ", "\n", " ", " ", " ", " ", " ", " ", " ", " ", "P", "r", "o", "f", "e",
          "s", "s", "i", "o", "n", "a", "l", " ", "S", "u", "m", "m", "a", "r", "y", ":" >>
    >>

\* the literal text of the prompt between its fields
\* {title}, {company}, {actions_text}, {outcomes_text}, {keywords_text}
BulletsPromptParts ==
    <<
       << "G", "e", "n", "e", "r", "a", "t", "e", " ", "3", "-", "5", " ", "i", "m", "p",
          "a", "c", "t", "f", "u", "l", " ", "b", "u", "l", "l", "e", "t", " ", "p", "o",
          "i", "n", "t", "s", " ", "f", "o", "r", " ", "a", " ", "r", "e", "s", "u", "m",
          "e", " ", "e", "x", "p", "e", "r", "i", "e", "n", "c", "e", " ", "s", "e", "c",
          "t", "i", "o", "n", ".", "\n", " ", " ", " ", " ", " ", " ", " ", " ", "\n", " ",
          " ", " ", " ", " ", " ", " ", " ", "P", "o", "s", "i", "t", "i", "o", "n", ":",
          " " >>,
       << " ", "a", "t", " " >>,
       << "\n", " ", " ", " ", " ", " ", " ", " ", " ", "K", "e", "y", " ", "R", "e", "s",
          "p", "o", "n", "s", "i", "b", "i", "l", "i", "t", "i", "e", "s", ":", " " >>,
       << "\n", " ", " ", " ", " ", " ", " ", " ", " ", "A", "c", "h", "i", "e", "v", "e",
          "m", "e", "n", "t", "s", "/", "O", "u", "t", "c", "o", "m", "e", "s", ":", " " >>,
       << "\n", " ", " ", " ", " ", " ", " ", " ", " ", "\n", " ", " ", " ", " ", " ", " ",
          " ", " ", "R", "e", "q", "u", "i", "r", "e", "m", "e", "n", "t", "s", ":" >>,
       << "\n", " ", " ", " ", " ", " ", " ", " ", " ", "-", " ", "U", "s", "e", " ", "S",
          "T", "A", "R", " ", "f", "o", "r", "m", "a", "t", " ", "(", "S", "i", "t", "u",
          "a", "t", "i", "o", "n", ",", " ", "T", "a", "s", "k", ",", " ", "A", "c", "t",
          "i", "o", "n", ",", " ", "R", "e", "s", "u", "l", "t", ")", "\n", " ", " ", " ",
          " ", " ", " ", " ", " ", "-", " ", "S", "t", "a", "r", "t", " ", "e", "a", "c",
          "h", " ", "b", "u", "l", "l", "e", "t", " ", "w", "i", "t", "h", " ", "s", "t",
          "r", "o", "n", "g", " ", "a", "c", "t", "i", "o", "n", " ", "v", "e", "r", "b",
          "s", "\n", " ", " ", " ", " ", " ", " ", " ", " ", "-", " ", "I", "n", "c", "l",
          "u", "d", "e", " ", "q", "u", "a", "n", "t", "i", "f", "i", "a", "b", "l", "e",
          " ", "m", "e", "t", "r", "i", "c", "s", " ", "w", "h", "e", "r", "e", " ", "p",
          "o", "s", "s", "i", "b", "l", "e", "\n", " ", " ", " ", " ", " ", " ", " ", " ",
          "-", " ", "K", "e", "e", "p", " ", "e", "a", "c", "h", " ", "b", "u", "l", "l",
          "e", "t", " ", "c", "o", "n", "c", "i", "s", "e", " ", "(", "1", "-", "2", " ",
          "l", "i", "n", "e", "s", ")", "\n", " ", " ", " ", " ", " ", " ", " ", " ", "-",
          " ", "S", "h", "o", "w", " ", "p", "r", "o", "g", "r", "e", "s", "s", "i", "o",
          "n", " ", "a", "n", "d", " ", "i", "m", "p", "a", "c", "t", "\n", " ", " ", " ",
          " ", " ", " ", " ", " ", "-", " ", "U", "s", "e", " ", "i", "n", "d", "u", "s",
          "t", "r", "y", "-", "s", "t", "a", "n", "d", "a", "r", "d", " ", "t", "e", "r",
          "m", "i", "n", "o", "l", "o", "g", "y", "\n", " ", " ", " ", " ", " ", " ", " ",
          " ", "\n", " ", " ", " ", " ", " ", " ", " ", " ", "B", "u", "l", "l", "e", "t",
          " ", "P", "o", "i", "n", "t", "s", ":" >>
    >>

\* the literal text of the prompt between its fields
\* {name}, {role}, {company}, {skills_text}, {achievements_text}, {projects_text}, {role}
CoverLetterPromptParts ==
    <<
       << "W", "r", "i", "t", "e", " ", "a", " ", "p", "r", "o", "f", "e", "s", "s", "i",
          "o", "n", "a", "l", " ", "c", "o", "v", "e", "r", " ", "l", "e", "t", "t", "e",
          "r", " ", "f", "o", "r", " ", "a", " ", "j", "o", "b", " ", "a", "p", "p", "l",
          "i", "c", "a", "t", "i", "o", "n", ".", "\n", " ", " ", " ", " ", " ", " ", " ",
          " ", "\n", " ", " ", " ", " ", " ", " ", " ", " ", "A", "p", "p", "l", "i", "c",
          "a", "n", "t", ":", " " >>,
       << "\n", " ", " ", " ", " ", " ", " ", " ", " ", "T", "a", "r", "g", "e", "t", " ",
          "P", "o", "s", "i", "t", "i", "o", "n", ":", " " >>,
       << " ", "a", "t", " " >>,
       << "\n", " ", " ", " ", " ", " ", " ", " ", " ", "K", "e", "y", " ", "S", "k", "i",
          "l", "l", "s", ":", " " >>,
       << "\n", " ", " ", " ", " ", " ", " ", " ", " ", "M", "a", "j", "o", "r", " ", "A",
          "c", "h", "i", "e", "v", "e", "m", "e", "n", "t", "s", ":", " " >>,
       << "\n", " ", " ", " ", " ", " ", " ", " ", " ", "R", "e", "l", "e", "v", "a", "n",
          "t", " ", "P", "r", "o", "j", "e", "c", "t", "s", ":", " " >>,
       << "\n", " ", " ", " ", " ", " ", " ", " ", " ", "\n", " ", " ", " ", " ", " ", " ",
          " ", " ", "R", "e", "q", "u", "i", "r", "e", "m", "e", "n", "t", "s", ":", "\n",
          " ", " ", " ", " ", " ", " ", " ", " ", "-", " ", "3", "0", "0", "-", "4", "0",
          "0", " ", "w", "o", "r", "d", "s", "\n", " ", " ", " ", " ", " ", " ", " ", " ",
          "-", " ", "P", "r", "o", "f", "e", "s", "s", "i", "o", "n", "a", "l", " ", "a",
          "n", "d", " ", "e", "n", "t", "h", "u", "s", "i", "a", "s", "t", "i", "c", " ",
          "t", "o", "n", "e", "\n", " ", " ", " ", " ", " ", " ", " ", " ", "-", " ", "T",
          "h", "r", "e", "e", " ", "p", "a", "r", "a", "g", "r", "a", "p", "h", "s", ":",
          " ", "I", "n", "t", "r", "o", "d", "u", "c", "t", "i", "o", "n", ",", " ", "Q",
          "u", "a", "l", "i", "f", "i", "c", "a", "t", "i", "o", "n", "s", ",", " ", "C",
          "l", "o", "s", "i", "n", "g", "\n", " ", " ", " ", " ", " ", " ", " ", " ", "-",
          " ", "T", "a", "i", "l", "o", "r", " ", "t", "o", " " >>,
       << " ", "p", "o", "s", "i", "t", "i", "o", "n", "\n", " ", " ", " ", " ", " ", " ",
          " ", " ", "-", " ", "M", "e", "n", "t", "i", "o", "n", " ", "s", "p", "e", "c",
          "i", "f", "i", "c", " ", "s", "k", "i", "l", "l", "s", " ", "a", "n", "d", " ",
          "a", "c", "h", "i", "e", "v", "e", "m", "e", "n", "t", "s", "\n", " ", " ", " ",
          " ", " ", " ", " ", " ", "-", " ", "I", "n", "c", "l", "u", "d", "e", " ", "a",
          " ", "c", "a", "l", "l", " ", "t", "o", " ", "a", "c", "t", "i", "o", "n", "\n",
          " ", " ", " ", " ", " ", " ", " ", " ", "-", " ", "A", "v", "o", "i", "d", " ",
          "g", "e", "n", "e", "r", "i", "c", " ", "p", "h", "r", "a", "s", "e", "s", "\n",
          " ", " ", " ", " ", " ", " ", " ", " ", "-", " ", "S", "h", "o", "w", " ", "p",
          "a", "s", "s", "i", "o", "n", " ", "f", "o", "r", " ", "t", "h", "e", " ", "i",
          "n", "d", "u", "s", "t", "r", "y", "\n", " ", " ", " ", " ", " ", " ", " ", " ",
          "\n", " ", " ", " ", " ", " ", " ", " ", " ", "C", "o", "v", "e", "r", " ", "L",
          "e", "t", "t", "e", "r", ":" >>
    >>

-----------------------------------------------------------------------------
(* LLMGenerator: the calls                                                 *)

\* what one requests.post can do: raise (timeout, no connection), or answer
\* with a status code and a body
RaisesException(message) ==
    [ outcome |-> "exception", message |-> message, status |-> 0,
      body |-> NotJson ]

Responds(status, body) ==
    [ outcome |-> "response", message |-> << >>, status |-> status,
      body |-> body ]

\* result.startswith without the placeholder prefix
FailurePrefixesWithoutPlaceholder == << S_Error, S_APIError >>

\* the tuple given to result.startswith
FailurePrefixes == << S_Error, S_APIError, S_LLMResponse >>

\* the body of the try statement of _call_llm_api once the response is
\* there: a return value, or an exception for the except clause
AfterResponse(reply) ==
    IF reply.outcome = "exception" THEN JErr(reply.message)
    ELSE IF reply.status = 200
    THEN IF reply.body.type = "invalid" THEN JErr(S_ExpectingValue)
         ELSE ResponseContent(reply.body)
    ELSE JOk(JStr(S_Error \o << " " >> \o IntToStr(reply.status)))

\* _call_llm_api sending the request again when the first one failed
call_llm_api_retrying(api_url_, api_token_, prompt, reply) ==
    IF Falsy(api_token_) \/ Contains(StrLower(api_url_), S_dev)
    THEN [ result |-> JStr(S_LLMResponse \o << " " >> \o Slice(prompt, 200)
                             \o S_Ellipsis),
           requests |-> 0 ]
    ELSE LET r == AfterResponse(reply)
             failed == ~r.ok \/ reply.status # 200
         IN  [ result |-> IF r.ok THEN r.value
                          ELSE JStr(S_APIError \o << " " >> \o r.message),
               requests |-> IF failed THEN 2 ELSE 1 ]

\* self._call_llm_api(prompt): the value returned and the number of
\* requests sent
call_llm_api(api_url_, api_token_, prompt, reply) ==
    IF Falsy(api_token_) \/ Contains(StrLower(api_url_), S_dev)
    THEN [ result |-> JStr(S_LLMResponse \o << " " >> \o Slice(prompt, 200)
                             \o S_Ellipsis),
           requests |-> 0 ]
    ELSE LET r == AfterResponse(reply)
         IN  [ result |-> IF r.ok THEN r.value
                          ELSE JStr(S_APIError \o << " " >> \o r.message),
               requests |-> 1 ]

\* a generate call returns a str, or raises
Completed(text, requests) ==
    [ raised |-> "", text |-> text, requests |-> requests ]

Failed(exception, requests) ==
    [ raised |-> exception, text |-> << >>, requests |-> requests ]

\* result.startswith((...)) is true
IsFailure(result) ==
    \E i \in 1..Len(FailurePrefixes) : StartsWith(result, FailurePrefixes[i])

\* the end of each generate method: the fallback when the result starts
\* with one of the prefixes, else result.strip(); a result that is no str
\* has no startswith
FallbackOrResult(call, fallback) ==
    IF call.result.type # "str" THEN Failed("AttributeError", call.requests)
    ELSE IF IsFailure(call.result.str) THEN Completed(fallback, call.requests)
    ELSE Completed(StrStrip(call.result.str, Whitespace), call.requests)

\* self._get_length_instruction(length)
get_length_instruction(length) ==
    LET l == StrLower(length)
    IN  IF l = S_short THEN S_ShortInstruction
        ELSE IF l = S_medium THEN S_MediumInstruction
        ELSE IF l = S_long THEN S_LongInstruction
        ELSE S_MediumInstruction

\* ', '.join(items[:n]) if items else default
JoinedOr(items, n, sep, default) ==
    IF ~Falsy(items) THEN JoinWith(Slice(items, n), sep) ELSE default

\* the prompt of generate_summary
SummaryPrompt(p) ==
    LET role == DictGet(DictGet(p, "targets", EmptyDict), "role",
                        S_professional)
        industry == DictGet(DictGet(p, "targets", EmptyDict), "industry",
                            S_RelevantIndustry)
        tech_skills == DictGet(DictGet(p, "skills", EmptyDict), "technical",
                               << >>)
        skills_text == JoinedOr(tech_skills, 5, S_CommaSpace,
                                S_RelevantTechnicalSkills)
        achievements == DictGet(p, "achievements", << >>)
        achievements_text == JoinedOr(achievements, 3, S_CommaSpace,
                                      S_AchievingResults)
        tone == DictGet(DictGet(p, "summary_preferences", EmptyDict), "tone",
                        S_professional)
        length == DictGet(DictGet(p, "summary_preferences", EmptyDict),
                          "length", S_medium)
    IN  FormatParts(SummaryPromptParts,
            << tone, role, industry, role, industry, skills_text,
               achievements_text, tone, length,
               get_length_instruction(length), role >>)

\* the fallback of generate_summary
SummaryFallback(p) ==
    LET role == DictGet(DictGet(p, "targets", EmptyDict), "role",
                        S_professional)
        industry == DictGet(DictGet(p, "targets", EmptyDict), "industry",
                            S_RelevantIndustry)
        tech_skills == DictGet(DictGet(p, "skills", EmptyDict), "technical",
                               << >>)
        skills_text == JoinedOr(tech_skills, 5, S_CommaSpace,
                                S_RelevantTechnicalSkills)
        achievements == DictGet(p, "achievements", << >>)
        achievements_text == JoinedOr(achievements, 3, S_CommaSpace,
                                      S_AchievingResults)
    IN  FormatParts(SummaryFallbackParts,
            << role, S_ThreePlus, industry, skills_text, achievements_text,
               role >>)

\* _llm_generator.generate_summary(profile)
generate_summary(api_url_, api_token_, p, reply) ==
    FallbackOrResult(call_llm_api(api_url_, api_token_, SummaryPrompt(p), reply),
                     SummaryFallback(p))

\* the prompt of generate_experience_bullets
BulletsPrompt(experience_item, ats_keywords) ==
    LET title == DictGet(experience_item, "title", S_Professional)
        company == DictGet(experience_item, "company", S_Company)
        actions == DictGet(experience_item, "actions", << >>)
        outcomes == DictGet(experience_item, "outcomes", << >>)
        actions_text == JoinedOr(actions, 3, S_SemicolonSpace,
                                 S_VariousResponsibilities)
        outcomes_text == JoinedOr(outcomes, 2, S_SemicolonSpace,
                                  S_PositiveResults)
        keywords_text ==
            IF ~Falsy(ats_keywords)
            THEN S_IncludeKeywords
                     \o JoinWith(Slice(ats_keywords, 5), S_CommaSpace)
                     \o << "." >>
            ELSE << >>
    IN  FormatParts(BulletsPromptParts,
            << title, company, actions_text, outcomes_text, keywords_text >>)

\* the fallback of generate_experience_bullets
BulletsFallback == FormatParts(BulletsFallbackParts, << S_RelevantTechnology >>)

\* _llm_generator.generate_experience_bullets(experience_item, ats_keywords)
generate_experience_bullets(api_url_, api_token_, experience_item, ats_keywords, reply) ==
    FallbackOrResult(call_llm_api(api_url_, api_token_,
                                  BulletsPrompt(experience_item, ats_keywords),
                                  reply),
                     BulletsFallback)

\* [p.get("name", "") for p in projects[:2]] without its empty names
RECURSIVE ProjectNames(_)
ProjectNames(projects) ==
    IF projects = << >> THEN << >>
    ELSE LET name == DictGet(Head(projects), "name", << >>)
         IN  (IF name # << >> THEN << name >> ELSE << >>)
                 \o ProjectNames(Tail(projects))

\* the prompt of generate_cover_letter
CoverLetterPrompt(p) ==
    LET name == DictGet(p, "name", S_Candidate)
        role == DictGet(DictGet(p, "targets", EmptyDict), "role",
                        S_ThePosition)
        company == DictGet(DictGet(p, "targets", EmptyDict), "company",
                           S_YourOrganization)
        skills == DictGet(DictGet(p, "skills", EmptyDict), "technical", << >>)
        skills_text == JoinedOr(skills, 5, S_CommaSpace, S_RelevantSkills)
        achievements == DictGet(p, "achievements", << >>)
        achievements_text == JoinedOr(achievements, 3, S_SemicolonSpace,
                                      S_NotableAccomplishments)
        projects == DictGet(p, "projects", << >>)
        projects_text ==
            IF Len(projects) > 0
            THEN JoinWith(ProjectNames(Slice(projects, 2)), S_And)
            ELSE S_VariousProjects
    IN  FormatParts(CoverLetterPromptParts,
            << name, role, company, skills_text, achievements_text,
               projects_text, role >>)

\* the fallback of generate_cover_letter
CoverLetterFallback(p) ==
    LET name == DictGet(p, "name", S_Candidate)
        role == DictGet(DictGet(p, "targets", EmptyDict), "role",
                        S_ThePosition)
        skills == DictGet(DictGet(p, "skills", EmptyDict), "technical", << >>)
        skills_text == JoinedOr(skills, 5, S_CommaSpace, S_RelevantSkills)
        achievements == DictGet(p, "achievements", << >>)
        achievements_text == JoinedOr(achievements, 3, S_SemicolonSpace,
                                      S_NotableAccomplishments)
        industry == DictGet(DictGet(p, "targets", EmptyDict), "industry",
                            S_TheIndustry)
    IN  FormatParts(CoverLetterFallbackParts,
            << role, industry, skills_text, achievements_text, name >>)

\* _llm_generator.generate_cover_letter(profile)
generate_cover_letter(api_url_, api_token_, p, reply) ==
    FallbackOrResult(call_llm_api(api_url_, api_token_, CoverLetterPrompt(p),
                                  reply),
                     CoverLetterFallback(p))

\* generate_text(kind, data) with the generator's api_url and api_token and
\* what the request meets
generate_text(api_url_, api_token_, kind_, data_, reply) ==
    IF kind_ = "summary"
    THEN generate_summary(api_url_, api_token_, data_, reply)
    ELSE IF kind_ = "bullets"
    THEN generate_experience_bullets(api_url_, api_token_,
             DictGet(data_, "experience_item", EmptyDict),
             DictGet(data_, "ats_keywords", << >>), reply)
    ELSE IF kind_ = "cover_letter"
    THEN generate_cover_letter(api_url_, api_token_, data_, reply)
    ELSE Completed(<< >>, 0)

-----------------------------------------------------------------------------
(* Inputs                                                                  *)

\* bounds of the inputs
MaxWords == 3        \* words of a job description given to extract_keywords
MaxTopN == 2         \* largest top_n tried
MaxScoreWords == 3   \* words of a job description given to keyword_match_score
MaxKeywords == 3     \* length of a keyword list given to merge_keywords
MaxMerges == 2       \* merge_keywords calls chained on one profile

SeqsUpTo(S, n) == UNION { [ 1..k -> S ] : k \in 0..n }

\* words as they are typed
W_Python    == << "P", "y", "t", "h", "o", "n" >>
W_AWS       == << "A", "W", "S" >>
W_Docker    == << "D", "o", "c", "k", "e", "r" >>
W_developer == << "d", "e", "v", "e", "l", "o", "p", "e", "r" >>
W_Looking   == << "L", "o", "o", "k", "i", "n", "g" >>
W_and       == << "a", "n", "d" >>
W_for       == << "f", "o", "r" >>
W_with      == << "w", "i", "t", "h" >>
W_experience == << "e", "x", "p", "e", "r", "i", "e", "n", "c", "e" >>
W_DashAnd   == << "-", "a", "n", "d", "-" >>
W_CPlusPlus == << "c", "+", "+" >>
W_go        == << "g", "o" >>
W_Bang      == << "!" >>

\* tokens as tokenize returns them
T_python == << "p", "y", "t", "h", "o", "n" >>
T_aws    == << "a", "w", "s" >>
T_docker == << "d", "o", "c", "k", "e", "r" >>
T_git    == << "g", "i", "t" >>
T_developer == << "d", "e", "v", "e", "l", "o", "p", "e", "r" >>
T_looking == << "l", "o", "o", "k", "i", "n", "g" >>

JobWords ==
    { W_Python, W_AWS, W_developer, W_and, W_DashAnd, W_CPlusPlus, W_go, W_Bang }

\* "Looking for a Python developer with AWS and Docker experience"
ExampleJD ==
    JoinSpace(<< W_Looking, W_for, << "a" >>, W_Python, W_developer, W_with, W_AWS, W_and,
                 W_Docker, W_experience >>)

\* a text whose words are separated by a newline and a tab
TwoLineJD == W_Python \o << "\n", "\t" >> \o W_AWS

\* "Go AI- -ML c++ a": words of one, two and three characters
ShortWordsJD ==
    << "G", "o", " ", "A", "I", "-", " ", "-", "M", "L", " ", "c", "+", "+",
       " ", "a" >>

\* "go- /vs c# ai/ml": short technical terms beside strip characters
TechnicalShortJD ==
    << "g", "o", "-", " ", "/", "v", "s", " ", "c", "#", " ", "a", "i", "/",
       "m", "l" >>

JobDescriptions ==
    { JoinSpace(ws) : ws \in SeqsUpTo(JobWords, MaxWords) }
        \cup { None, ExampleJD, TwoLineJD, ShortWordsJD, TechnicalShortJD }

ScoreWords == { W_Python, W_AWS, W_Docker, W_developer, W_and }

ScoreJobDescriptions ==
    { JoinSpace(ws) : ws \in SeqsUpTo(ScoreWords, MaxScoreWords) }
        \cup { None, ExampleJD }

KeywordLists == SeqsUpTo({ T_python, T_aws, T_developer, T_git }, MaxKeywords)

\* the parts a profile is put together from: a key is left out or has a value
Missing == [ present |-> FALSE ]

Given(value) == [ present |-> TRUE, value |-> value ]

NameChoices == { Missing, Given(<< "A", "n", "n" >>) }

SkillsChoices ==
    { Missing,
      Given([ technical |-> << W_Python, W_AWS >> ]),
      Given([ technical |-> None, soft |-> << W_developer >> ]),
      Given([ soft |-> << W_Python >> ]),
      Given([ technical |-> << W_Docker \o << " " >> \o W_developer >> ]) }

ExperienceChoices ==
    { Missing,
      Given(<< >>),
      Given(<< [ actions |-> << W_Docker >>,
                 outcomes |-> << W_developer, W_AWS >> ] >>),
      Given(<< [ title |-> W_developer ],
               [ actions |-> << W_Python >>, outcomes |-> None ] >>) }

ProjectsChoices ==
    { Missing,
      Given(<< [ technologies |-> << W_AWS, W_Docker >> ] >>),
      Given(<< [ name |-> W_Python ], [ technologies |-> None ] >>) }

Item(key, choice) ==
    IF choice.present THEN key :> choice.value ELSE [ k \in {} |-> Missing ]

MakeProfile(name, skills, experience, projects) ==
    Item("name", name) @@ Item("skills", skills)
        @@ Item("experience", experience) @@ Item("projects", projects)

Profiles ==
    { MakeProfile(n, s, e, p) :
        n \in NameChoices, s \in SkillsChoices,
        e \in ExperienceChoices, p \in ProjectsChoices }

\* keyword_match_score is tried on the profiles without a name
ScoreProfiles == { p \in Profiles : "name" \notin DOMAIN p }

\* keyword_match_score called again after the caller has added an entry to
\* one of the four lists it reads
MaxEntries == 2      \* entries of the scored lists of a profile that grows

RescoreJobDescriptions ==
    { None, W_and, W_Python,
      JoinSpace(<< W_Python, W_AWS, W_Docker >>),
      JoinSpace(<< W_Python, W_AWS >>),
      JoinSpace(<< W_developer, W_Looking >>),
      JoinSpace(<< W_Python, W_developer >>),
      JoinSpace(<< W_AWS, W_AWS, W_developer >>) }

RescoreEntries ==
    { W_Python, JoinSpace(<< W_AWS, W_developer >>), W_Looking }

RescoreProfiles ==
    { [ experience |-> << [ title |-> W_developer ] >>,
        projects |-> << [ name |-> W_Python ] >> ],
      [ skills |-> [ technical |-> << W_Python >> ],
        experience |-> << [ title |-> W_developer ] >>,
        projects |-> << [ technologies |-> << >> ] >> ] }

ScoredLists == { "technical", "actions", "outcomes", "technologies" }

\* where the list named place lives: the skills dict, the first experience
\* entry or the first project
HolderOf(p, place) ==
    IF place = "technical" THEN DictGet(p, "skills", EmptyDict)
    ELSE IF place = "technologies" THEN p["projects"][1]
    ELSE p["experience"][1]

\* the profile with the entry appended to that list
AddEntry(p, place, entry) ==
    LET holder == HolderOf(p, place)
        grown  == DictSet(holder, place,
                          Append(DictGet(holder, place, << >>), entry))
    IN  IF place = "technical" THEN DictSet(p, "skills", grown)
        ELSE IF place = "technologies"
        THEN DictSet(p, "projects", << grown >> \o Tail(p["projects"]))
        ELSE DictSet(p, "experience", << grown >> \o Tail(p["experience"]))

\* the number of entries of the four lists
EntryCount(p) ==
    Len(DictGet(HolderOf(p, "technical"), "technical", << >>))
        + Len(DictGet(HolderOf(p, "actions"), "actions", << >>))
        + Len(DictGet(HolderOf(p, "outcomes"), "outcomes", << >>))
        + Len(DictGet(HolderOf(p, "technologies"), "technologies", << >>))

\* the generator's endpoint and token, and the texts a request can meet
U_OpenAI ==
    << "h", "t", "t", "p", "s", ":", "/", "/", "a", "p", "i", ".", "o", "p", "e", "n", "a",
       "i", ".", "c", "o", "m", "/", "v", "1", "/", "c", "h", "a", "t", "/", "c", "o", "m",
       "p", "l", "e", "t", "i", "o", "n", "s" >>

U_UpperDev ==
    << "h", "t", "t", "p", "s", ":", "/", "/", "A", "P", "I", ".", "e", "x", "a", "m", "p",
       "l", "e", ".", "c", "o", "m", "/", "D", "E", "V", "/", "v", "1" >>

U_LowerDev ==
    << "h", "t", "t", "p", ":", "/", "/", "d", "e", "v", "b", "o", "x", ".", "l", "o", "c",
       "a", "l", "/", "v", "1" >>

K_Token == << "s", "k", "-", "1" >>

M_ReadTimedOut ==
    << "R", "e", "a", "d", " ", "t", "i", "m", "e", "d", " ", "o", "u", "t", ".", " ", "(",
       "r", "e", "a", "d", " ", "t", "i", "m", "e", "o", "u", "t", "=", "3", "0", ")" >>

M_ConnectionRefused ==
    << "C", "o", "n", "n", "e", "c", "t", "i", "o", "n", " ", "r", "e", "f", "u", "s", "e",
       "d" >>

X_Generated ==
    << " ", " ", "E", "n", "g", "i", "n", "e", "e", "r", " ", "w", "i", "t", "h", " ", "r",
       "e", "s", "u", "l", "t", "s", ".", "\n" >>

X_ErrorText ==
    << "E", "r", "r", "o", "r", ":", " ", "q", "u", "o", "t", "a", " ", "e", "x", "c", "e",
       "e", "d", "e", "d" >>

X_ApiErrorText ==
    << "A", "P", "I", " ", "E", "r", "r", "o", "r", ":", " ", "u", "p", "s", "t", "r", "e",
       "a", "m" >>

X_PlaceholderText ==
    << "[", "L", "L", "M", " ", "R", "E", "S", "P", "O", "N", "S", "E", "]", " ", "e", "c",
       "h", "o" >>

P_Ann == << "A", "n", "n" >>

P_Engineer == << "E", "n", "g", "i", "n", "e", "e", "r" >>

P_Cloud == << "C", "l", "o", "u", "d" >>

P_Acme == << "A", "c", "m", "e" >>

P_formal == << "f", "o", "r", "m", "a", "l" >>

P_Short == << "S", "h", "o", "r", "t" >>

P_Intern == << "I", "n", "t", "e", "r", "n" >>

P_BuiltDocker ==
    << "B", "u", "i", "l", "t", " ", "D", "o", "c", "k", "e", "r", " ", "i", "m", "a", "g",
       "e", "s" >>

P_CutCosts == << "C", "u", "t", " ", "A", "W", "S", " ", "c", "o", "s", "t", "s" >>

P_WonPrize == << "W", "o", "n", " ", "p", "r", "i", "z", "e" >>

P_Site == << "S", "i", "t", "e" >>

P_Description == << "A", " ", "P", "y", "t", "h", "o", "n", " ", "s", "i", "t", "e" >>

ApiUrls == { U_OpenAI, U_UpperDev, U_LowerDev }

ApiTokens == { << >>, K_Token }

\* {"choices": [{"message": {"content": content}}]}
ChatBody(content) ==
    JDict("choices" :> JList(<< JDict("message" :> JDict("content" :> content)) >>))

\* what the request can meet, one after the other
Remotes ==
    << RaisesException(M_ReadTimedOut),
       RaisesException(M_ConnectionRefused),
       Responds(500, NotJson),
       Responds(429, JDict("error" :> JStr(X_ErrorText))),
       Responds(200, NotJson),
       Responds(200, ChatBody(JStr(X_Generated))),
       Responds(200, JDict("choices" :> JList(<< >>))),
       Responds(200, ChatBody(JNull)),
       Responds(200, JDict(EmptyDict)),
       Responds(200, JDict("choices" :> JList(<< JDict("message" :> JNull) >>))),
       Responds(200, JList(<< >>)),
       Responds(200, ChatBody(JInt(42))),
       Responds(200, JDict("choices" :> JNull)),
       Responds(200, ChatBody(JStr(X_ErrorText))),
       Responds(200, ChatBody(JStr(X_ApiErrorText))),
       Responds(200, ChatBody(JStr(X_PlaceholderText))) >>

\* the three kinds generate_text knows
KnownKinds == { "summary", "bullets", "cover_letter" }

\* the kinds given to generate_text; "portfolio" is none of the three it knows
Kinds == KnownKinds \cup { "portfolio" }

\* the fields of a profile that the code reads, each of which can be absent
RecognisedFields ==
    { "name", "skills", "skills.technical", "experience", "actions",
      "outcomes", "projects", "technologies", "achievements", "targets",
      "summary_preferences" }

\* {key: value} unless the field is in absent, then {}
Unless(field, absent, key, value) ==
    IF field \in absent THEN [ k \in {} |-> Missing ] ELSE key :> value

\* a complete profile without the fields in absent
FieldProfile(absent) ==
    Unless("name", absent, "name", P_Ann)
    @@ Unless("skills", absent, "skills",
           Unless("skills.technical", absent, "technical",
                  << W_Python, W_AWS >>)
           @@ ("soft" :> << W_developer >>))
    @@ Unless("experience", absent, "experience",
           << ("title" :> P_Intern) @@ ("company" :> P_Acme)
              @@ Unless("actions", absent, "actions", << P_BuiltDocker >>)
              @@ Unless("outcomes", absent, "outcomes", << P_CutCosts >>) >>)
    @@ Unless("projects", absent, "projects",
           << ("name" :> P_Site) @@ ("description" :> P_Description)
              @@ Unless("technologies", absent, "technologies",
                        << W_AWS, W_Docker >>) >>)
    @@ Unless("achievements", absent, "achievements", << P_WonPrize >>)
    @@ Unless("targets", absent, "targets",
           ("role" :> P_Engineer) @@ ("industry" :> P_Cloud)
           @@ ("company" :> P_Acme) @@ ("job_description" :> ExampleJD))
    @@ Unless("summary_preferences", absent, "summary_preferences",
           ("tone" :> P_formal) @@ ("length" :> P_Short))

FieldProfiles == { FieldProfile(absent) : absent \in SUBSET RecognisedFields }

\* {**profile, "experience_item": exp, "ats_keywords": ats_keywords}
BulletsContext(p, exp, ats_keywords) ==
    DictSet(DictSet(p, "experience_item", exp), "ats_keywords", ats_keywords)

\* the contexts generate_text is tried on
GenerateContexts ==
    { FieldProfile(absent) :
        absent \in { {}, RecognisedFields, { "targets" },
                     { "skills.technical", "achievements" },
                     { "name", "projects" } } }
    \cup { BulletsContext(FieldProfile({}), FieldProfile({}).experience[1],
                          << T_python, T_aws >>),
           BulletsContext(FieldProfile({ "actions" }),
                          FieldProfile({ "actions" }).experience[1], << >>),
           BulletsContext(EmptyDict, EmptyDict, << T_docker >>) }

-----------------------------------------------------------------------------
(* make_portfolio_zip (src/utills/utills/utills/portfolio.py)              *)

F_ResumeHtml == << "r", "e", "s", "u", "m", "e", ".", "h", "t", "m", "l" >>

F_CoverLetterTxt ==
    << "c", "o", "v", "e", "r", "_", "l", "e", "t", "t", "e", "r", ".", "t", "x", "t" >>

F_ProfileJson == << "p", "r", "o", "f", "i", "l", "e", ".", "j", "s", "o", "n" >>

F_ProjectsJson == << "p", "r", "o", "j", "e", "c", "t", "s", ".", "j", "s", "o", "n" >>

F_Projects == << "p", "r", "o", "j", "e", "c", "t", "s" >>

F_ProjectPrefix == << "p", "r", "o", "j", "e", "c", "t", "_" >>

F_Md == << ".", "m", "d" >>

F_ReadmeMd == << "R", "E", "A", "D", "M", "E", ".", "m", "d" >>

F_IndexHtml == << "i", "n", "d", "e", "x", ".", "h", "t", "m", "l" >>

F_SkillsMd == << "s", "k", "i", "l", "l", "s", ".", "m", "d" >>

F_PortfolioZip == << "p", "o", "r", "t", "f", "o", "l", "i", "o", ".", "z", "i", "p" >>

\* a file of the temporary directory: the directory it is in, relative to
\* temp_dir ("" for temp_dir itself), and its name
InTempDir(file) == [ root |-> << >>, file |-> file ]

InProjectsDir(file) == [ root |-> F_Projects, file |-> file ]

\* os.path.relpath(os.path.join(root, file), temp_dir)
ArcName(entry) ==
    IF entry.root = << >> THEN entry.file
    ELSE entry.root \o << "/" >> \o entry.file

\* the files projects/project_{i+1}.md written by the loop over projects[:10]
ProjectFiles(projects) ==
    { InProjectsDir(F_ProjectPrefix \o IntToStr(i) \o F_Md) :
        i \in 1..Len(Slice(projects, 10)) }

\* steps 1 to 7 of make_portfolio_zip: the files in temp_dir after them
PortfolioFiles(p, resume_html, cover_letter) ==
    LET projects == DictGet(p, "projects", << >>)
    IN  { InTempDir(F_ResumeHtml) }
        \cup (IF cover_letter # << >> THEN { InTempDir(F_CoverLetterTxt) }
              ELSE {})
        \cup { InTempDir(F_ProfileJson) }
        \cup (IF Len(projects) > 0
              THEN { InTempDir(F_ProjectsJson) } \cup ProjectFiles(projects)
              ELSE {})
        \cup { InTempDir(F_ReadmeMd), InTempDir(F_IndexHtml),
               InTempDir(F_SkillsMd) }

\* step 8: ZipFile(zip_path, 'w') creates portfolio.zip in temp_dir, then
\* the walk over temp_dir writes every file but the ones of that name
ZipEntries(files) ==
    { ArcName(entry) :
        entry \in { e \in files \cup { InTempDir(F_PortfolioZip) } :
                      e.file # F_PortfolioZip } }

\* make_portfolio_zip(profile, resume_html, cover_letter): the files left in
\* temp_dir and the names in the archive
make_portfolio_zip(p, resume_html, cover_letter) ==
    LET files == PortfolioFiles(p, resume_html, cover_letter)
    IN  [ temp_dir |-> files \cup { InTempDir(F_PortfolioZip) },
          archive |-> ZipEntries(files) ]

-----------------------------------------------------------------------------
(* main (src/app.py): inputs of one run of the script                      *)

MaxProjects == 11    \* most projects of a profile given to make_portfolio_zip

\* the text of the profile box: empty, not JSON (json.loads raises
\* JSONDecodeError), or the JSON text of a profile
EmptyText == [ text |-> "empty", value |-> EmptyDict ]

InvalidText == [ text |-> "invalid", value |-> EmptyDict ]

JsonText(p) == [ text |-> "valid", value |-> p ]

\* a second experience entry, without outcomes
SecondJob == ("title" :> P_Engineer) @@ ("actions" :> << P_CutCosts >>)

\* the profiles of the runs: none to two experience entries, with and
\* without a job description
RunProfiles ==
    { EmptyDict,
      FieldProfile({}),
      FieldProfile({ "targets" }),
      DictSet(FieldProfile({}), "experience",
              << FieldProfile({})["experience"][1], SecondJob >>) }

ProfileTexts == { EmptyText, InvalidText } \cup { JsonText(p) : p \in RunProfiles }

ExportFormats == { "PDF", "DOCX", "BOTH" }

\* what the requests of a run can meet: a timeout, a generated text, a body
\* whose content is null
RunRemotes == { Remotes[1], Remotes[6], Remotes[8] }

\* a profile with n projects
ProjectsProfile(n) ==
    "projects" :> [ i \in 1..n |-> ("name" :> P_Site) @@ ("technologies" :> << W_AWS >>) ]

\* the arguments make_portfolio_zip is tried on
ZipProfiles ==
    { EmptyDict, FieldProfile({}) }
        \cup { ProjectsProfile(n) : n \in 0..MaxProjects }

\* tmpl.render(profile=..., summary=..., exp_with_bullets=...,
\* include_portfolio=...): the page of these arguments
RenderedHtml(template, p, summary, exp_with_bullets, include_portfolio) ==
    [ template |-> template, profile |-> p, summary |-> summary,
      exp_with_bullets |-> exp_with_bullets,
      include_portfolio |-> include_portfolio ]

NoHtml == RenderedHtml("", EmptyDict, << >>, << >>, FALSE)

ZipArguments ==
    { [ profile |-> p,
        resume_html |-> IF rendered
                        THEN RenderedHtml("modern", p, X_Generated, << >>, TRUE)
                        ELSE NoHtml,
        cover_letter |-> c ] :
        p \in ZipProfiles, rendered \in BOOLEAN, c \in { << >>, X_Generated } }

-----------------------------------------------------------------------------
(* main: the steps of one run                                              *)

\* an entry of the log of a run: the call made, and the experience entry
\* (1, 2, ...) a bullets call is for
Step(name, item) == [ step |-> name, item |-> item ]

\* a run that has done nothing yet
NewRun ==
    [ log |-> << >>, profile |-> EmptyDict, ats_keywords |-> << >>,
      summary |-> << >>, bullets |-> << >>, cover_letter |-> << >>,
      resume_html |-> NoHtml, files |-> << >> ]

\* profile.get("targets", {}).get("job_description", "")
JobDescriptionOf(p) ==
    DictGet(DictGet(p, "targets", EmptyDict), "job_description", << >>)

\* list(zip(profile.get("experience", []), bullets))
Zip(experience, bullets) ==
    [ i \in 1..(IF Len(experience) < Len(bullets) THEN Len(experience)
                ELSE Len(bullets)) |-> << experience[i], bullets[i] >> ]

-----------------------------------------------------------------------------
(* The calls                                                               *)

\* values of the variables a scenario does not use
NoMatch == Returned(0, {}, {}, 0, 0, FALSE)

\* values of the generator's variables in a scenario that does not use them
NotGenerated == Completed(<< >>, 0)

LLMUnused ==
    /\ api_url = U_OpenAI
    /\ api_token = << >>
    /\ kind = "summary"
    /\ data = EmptyDict
    /\ remote = Remotes[1]
    /\ generated = NotGenerated
    /\ requests_sent = 0

\* values of the variables of main and of make_portfolio_zip in a scenario
\* that does not use them
AppUnused ==
    /\ ui = [ profile_json |-> EmptyText, template_choice |-> "modern",
              optimize_ats |-> TRUE,
              include_cover_letter |-> TRUE, include_portfolio |-> TRUE,
              export_format |-> "PDF", button |-> FALSE ]
    /\ run = NewRun

ZipUnused ==
    /\ zip_args = [ profile |-> EmptyDict, resume_html |-> NoHtml,
                    cover_letter |-> << >> ]
    /\ temp_dir = {}
    /\ archive = {}

-----------------------------------------------------------------------------
(* render_pdf (src/utills/utills/generate_pdf.py)                          *)

\* the first index at or after i where the text holds sub, or 0
FindFrom(s, i, sub) ==
    LET at == { k \in i..(Len(s) - Len(sub) + 1) :
                  SubSeq(s, k, k + Len(sub) - 1) = sub }
    IN  IF at = {} THEN 0 ELSE CHOOSE k \in at : \A j \in at : k <= j

\* where a match of <[^>]+> that begins at i ends, or 0
TagEnd(s, i) ==
    IF s[i] = "<" /\ i + 1 <= Len(s) /\ s[i + 1] # ">"
    THEN FindFrom(s, i + 2, << ">" >>)
    ELSE 0

\* re.sub(r'<[^>]+>', '', s)
RECURSIVE RemoveTagsFrom(_, _)
RemoveTagsFrom(s, i) ==
    IF i > Len(s) THEN << >>
    ELSE IF TagEnd(s, i) > 0 THEN RemoveTagsFrom(s, TagEnd(s, i) + 1)
    ELSE << s[i] >> \o RemoveTagsFrom(s, i + 1)

RemoveTags(s) == RemoveTagsFrom(s, 1)

\* s.split(sep) with a separator given
RECURSIVE SplitOn(_, _)
SplitOn(s, sep) ==
    IF FindFrom(s, 1, sep) = 0 THEN << s >>
    ELSE << SubSeq(s, 1, FindFrom(s, 1, sep) - 1) >>
             \o SplitOn(SubSeq(s, FindFrom(s, 1, sep) + Len(sep), Len(s)), sep)

\* the value of an expression, computed once
Only(S) == CHOOSE x \in S : TRUE

\* the candidates of wkhtmltopdf_paths, in order
wkhtmltopdf_paths ==
    << "/usr/local/bin/wkhtmltopdf", "/usr/bin/wkhtmltopdf",
       "C:/Program Files/wkhtmltopdf/bin/wkhtmltopdf.exe",
       "<dirname(__file__)>/wkhtmltopdf" >>

\* the loop over wkhtmltopdf_paths with its break: the first path that
\* exists, or no configuration
WkhtmltopdfConfig(found) ==
    IF found = {} THEN "None"
    ELSE wkhtmltopdf_paths[CHOOSE i \in found : \A j \in found : i <= j]

\* pdfkit finds a binary: the configured one, or one on the PATH
BinaryAvailable(args) ==
    WkhtmltopdfConfig(args.found) # "None" \/ args.on_path

\* the try block without the os.path.exists test
TryConversionUnchecked(args, files) ==
    IF args.conversion = "raises"
    THEN [ error |-> "OSError", files |-> files ]
    ELSE [ error |-> "",
           files |-> IF args.conversion = "writes"
                     THEN files \cup { args.output_path } ELSE files ]

\* the try block, lines 148-170: pdfkit.from_string raises, or returns
\* having written the file or not; then the os.path.exists test
TryConversion(args, files) ==
    IF args.conversion = "raises"
    THEN [ error |-> "OSError", files |-> files ]
    ELSE LET after == IF args.conversion = "writes"
                      THEN files \cup { args.output_path } ELSE files
         IN  [ error |-> IF args.output_path \in after THEN "" ELSE "Exception",
               files |-> after ]

\* lines[:50] and line[:200] of the fallback
FallbackLines == 50

FallbackLineChars == 200

\* the text of the fallback: tags removed, runs of whitespace made one space
PlainText(html) ==
    Only({ CollapseWhitespace(t) : t \in { RemoveTags(html) } })

\* the multi_cell calls: one for each of the first 50 lines that is not
\* blank, of its first 200 characters; a call that raises adds nothing
RECURSIVE FallbackCells(_, _)
FallbackCells(lines, cell_ok) ==
    IF lines = << >> THEN << >>
    ELSE (IF StrStrip(Head(lines), Whitespace) # << >> /\ cell_ok
          THEN << Slice(Head(lines), FallbackLineChars) >>
          ELSE << >>)
             \o FallbackCells(Tail(lines), cell_ok)

\* _create_fallback_pdf(html_content, output_path): the import of fpdf can
\* fail, and pdf.output can fail to write
create_fallback_pdf(args, files) ==
    IF ~args.fpdf_installed
    THEN [ raised |-> "ModuleNotFoundError", returned |-> None,
           document |-> << >>, files |-> files ]
    ELSE LET lines == Only({ SplitOn(t, << "\n" >>) :
                                t \in { PlainText(args.html_content) } })
             cells == FallbackCells(Slice(lines, FallbackLines), args.cell_ok)
         IN  IF args.writable
             THEN [ raised |-> "", returned |-> args.output_path,
                    document |-> cells,
                    files |-> files \cup { args.output_path } ]
             ELSE [ raised |-> "PermissionError", returned |-> None,
                    document |-> cells, files |-> files ]

\* 'resume.pdf'
F_ResumePdf ==
    << "r", "e", "s", "u", "m", "e", ".", "p", "d", "f" >>

\* 'out/cv.pdf'
F_OutCvPdf ==
    << "o", "u", "t", "/", "c", "v", ".", "p", "d", "f" >>

\* '<h1>Ann</h1>\n<p>Dev &amp; Ops</p>'
H_Resume ==
    << "<", "h", "1", ">", "A", "n", "n", "<", "/", "h", "1", ">", "\n", "<", "p",
       ">", "D", "e", "v", " ", "&", "a", "m", "p", ";", " ", "O", "p", "s", "<",
       "/", "p", ">" >>

\* '<br/> \n'
H_Blank ==
    << "<", "b", "r", "/", ">", " ", "\n" >>

\* 'a < b'
H_Less ==
    << "a", " ", "<", " ", "b" >>

HtmlContents == { H_Resume, H_Blank, H_Less, << >> }

\* what render_pdf can meet: which candidate paths hold a binary, whether
\* one is on the PATH, what the conversion does, whether a file is already
\* at output_path, and whether the fallback can import fpdf, add text and
\* write its file
PdfArguments ==
    { a \in [ html_content : HtmlContents,
              output_path : { F_ResumePdf, F_OutCvPdf },
              found : { {}, { 2 }, { 1, 4 }, { 3 } },
              on_path : BOOLEAN,
              conversion : { "writes", "silent", "raises" },
              stale : BOOLEAN,
              fpdf_installed : BOOLEAN,
              cell_ok : BOOLEAN,
              writable : BOOLEAN ] :
        ~BinaryAvailable(a) => a.conversion = "raises" }

-----------------------------------------------------------------------------
(* render_docx and extract_text_from_html (src/utills/generate_docx.py)    *)

\* the character U+2022 (bullet), one item of a str like every character
BulletChar == "u2022"

\* str.upper() on one character
ToUpper(c) ==
    IF c \in Range(LowerCase) THEN UpperCase[IndexOf(LowerCase, c)] ELSE c

StrUpper(text) == [ i \in 1..Len(text) |-> ToUpper(text[i]) ]

\* the patterns of the re.sub calls
Literally(text) == [ kind |-> "literal", text |-> text ]

Element(name) ==
    [ kind |-> "element", open |-> << "<" >> \o name,
      close |-> << "<", "/" >> \o name \o << ">" >> ]

\* the end of the run of characters of the class that begins at i (i - 1
\* when s[i] is not of the class)
RunEnd(s, i, class) ==
    LET stop == { k \in i..Len(s) : s[k] \notin class }
    IN  IF stop = {} THEN Len(s)
        ELSE (CHOOSE k \in stop : \A j \in stop : k <= j) - 1

\* where the match of the pattern that begins at i ends, or 0 when none
\* begins there
MatchEnd(pat, s, i) ==
    CASE pat.kind = "literal" ->
             \* a fixed text such as </p>
             IF i + Len(pat.text) - 1 <= Len(s)
                    /\ SubSeq(s, i, i + Len(pat.text) - 1) = pat.text
             THEN i + Len(pat.text) - 1 ELSE 0
      [] pat.kind = "element" ->
             \* <script[^>]*>.*?</script> with re.DOTALL
             IF i + Len(pat.open) - 1 <= Len(s)
                    /\ SubSeq(s, i, i + Len(pat.open) - 1) = pat.open
                    /\ FindFrom(s, i + Len(pat.open), << ">" >>) > 0
                    /\ FindFrom(s, FindFrom(s, i + Len(pat.open), << ">" >>) + 1,
                                pat.close) > 0
             THEN FindFrom(s, FindFrom(s, i + Len(pat.open), << ">" >>) + 1,
                           pat.close) + Len(pat.close) - 1
             ELSE 0
      [] pat.kind = "br" ->
             \* <br\s*/?>
             IF i + 2 <= Len(s) /\ SubSeq(s, i, i + 2) = << "<", "b", "r" >>
             THEN LET j == RunEnd(s, i + 3, Whitespace) + 1
                      k == IF j <= Len(s) /\ s[j] = "/" THEN j + 1 ELSE j
                  IN  IF k <= Len(s) /\ s[k] = ">" THEN k ELSE 0
             ELSE 0
      [] pat.kind = "closing_heading" ->
             \* </h[1-6]>
             IF i + 4 <= Len(s) /\ SubSeq(s, i, i + 2) = << "<", "/", "h" >>
                    /\ s[i + 3] \in { "1", "2", "3", "4", "5", "6" }
                    /\ s[i + 4] = ">"
             THEN i + 4 ELSE 0
      [] pat.kind = "tag" ->
             \* <[^>]+>
             TagEnd(s, i)
      [] pat.kind = "blank_lines" ->
             \* \n\s*\n : up to the last newline of the whitespace after it
             IF s[i] = "\n"
             THEN LET ends == { k \in (i + 1)..RunEnd(s, i + 1, Whitespace) :
                                  s[k] = "\n" }
                  IN  IF ends = {} THEN 0
                      ELSE CHOOSE k \in ends : \A j \in ends : j <= k
             ELSE 0
      [] pat.kind = "spaces" ->
             \* [ \t]+
             IF s[i] \in { " ", "\t" } THEN RunEnd(s, i, { " ", "\t" }) ELSE 0

\* where the first match at or after i begins, or 0
NextMatch(pat, s, i) ==
    LET at == { k \in i..Len(s) : MatchEnd(pat, s, k) > 0 }
    IN  IF at = {} THEN 0 ELSE CHOOSE k \in at : \A j \in at : k <= j

\* re.sub(pattern, repl, s), and str.replace for a fixed text: the matches
\* from left to right, each search beginning where the last match ended
RECURSIVE SubFrom(_, _, _, _)
SubFrom(pat, repl, s, i) ==
    IF NextMatch(pat, s, i) = 0 THEN SubSeq(s, i, Len(s))
    ELSE SubSeq(s, i, NextMatch(pat, s, i) - 1) \o repl
             \o SubFrom(pat, repl, s,
                        MatchEnd(pat, s, NextMatch(pat, s, i)) + 1)

ReSub(pat, repl, s) == SubFrom(pat, repl, s, 1)

\* the substitutions of extract_text_from_html in the order of its lines,
\* the entity replacements in the order of the dict
TextSubstitutions ==
    << << Element(<< "s", "c", "r", "i", "p", "t" >>), << >> >>,
       << Element(<< "s", "t", "y", "l", "e" >>), << >> >>,
       << [ kind |-> "br" ], << "\n" >> >>,
       << Literally(<< "<", "/", "p", ">" >>), << "\n", "\n" >> >>,
       << Literally(<< "<", "/", "d", "i", "v", ">" >>), << "\n" >> >>,
       << [ kind |-> "closing_heading" ], << "\n", "\n" >> >>,
       << Literally(<< "<", "l", "i", ">" >>), << BulletChar, " " >> >>,
       << Literally(<< "<", "/", "l", "i", ">" >>), << "\n" >> >>,
       << [ kind |-> "tag" ], << >> >>,
       << [ kind |-> "blank_lines" ], << "\n", "\n" >> >>,
       << [ kind |-> "spaces" ], << " " >> >>,
       << Literally(<< "&", "n", "b", "s", "p", ";" >>), << " " >> >>,
       << Literally(<< "&", "a", "m", "p", ";" >>), << "&" >> >>,
       << Literally(<< "&", "l", "t", ";" >>), << "<" >> >>,
       << Literally(<< "&", "g", "t", ";" >>), << ">" >> >>,
       << Literally(<< "&", "q", "u", "o", "t", ";" >>), << "\"" >> >>,
       << Literally(<< "&", "#", "3", "9", ";" >>), << "'" >> >> >>

\* the text after the substitutions from the k-th on
RECURSIVE ApplyFrom(_, _)
ApplyFrom(k, s) ==
    IF k > Len(TextSubstitutions) THEN s
    ELSE Only({ ApplyFrom(k + 1, ReSub(TextSubstitutions[k][1],
                                       TextSubstitutions[k][2], t)) :
                  t \in { s } })

\* extract_text_from_html(html)
extract_text_from_html(html) ==
    Only({ StrStrip(t, Whitespace) : t \in { ApplyFrom(1, html) } })

\* the titles of the whitelist
SectionTitles ==
    { << "P", "R", "O", "F", "E", "S", "S", "I", "O", "N", "A", "L", " ", "S", "U", "M",
   "M", "A", "R", "Y" >>,
      << "E", "X", "P", "E", "R", "I", "E", "N", "C", "E" >>,
      << "E", "D", "U", "C", "A", "T", "I", "O", "N" >>,
      << "S", "K", "I", "L", "L", "S" >>,
      << "P", "R", "O", "J", "E", "C", "T", "S" >>,
      << "A", "C", "H", "I", "E", "V", "E", "M", "E", "N", "T", "S" >> }

S_Resume == << "R", "e", "s", "u", "m", "e" >>

\* doc.add_paragraph(text) with its style and alignment
Paragraph(text, style, alignment) ==
    [ text |-> text, style |-> style, alignment |-> alignment ]

\* line.startswith(('u2022', '-', '*'))
HasBulletPrefix(line) ==
    line # << >> /\ line[1] \in { BulletChar, "-", "*" }

\* the loop over section.split('\n'), lines 77-83
RECURSIVE LineParagraphs(_)
LineParagraphs(lines) ==
    IF lines = << >> THEN << >>
    ELSE LET line == StrStrip(Head(lines), Whitespace)
         IN  (IF HasBulletPrefix(line)
              THEN << Paragraph(StrStrip(Tail(line), Whitespace),
                                "List Bullet", "") >>
              ELSE IF line # << >> THEN << Paragraph(line, "Normal", "") >>
              ELSE << >>)
                 \o LineParagraphs(Tail(lines))

\* the if / elif / else on a stripped, non-empty section, lines 61-86
SectionParagraphs(section) ==
    IF StrUpper(section) \in SectionTitles
    THEN << Paragraph(StrUpper(section), "Heading2", "LEFT") >>
    ELSE IF Contains(section, S_Resume) \/ Len(StrSplit(section)) <= 3
    THEN << Paragraph(section, "Heading1", "CENTER") >>
    ELSE IF Contains(section, << BulletChar >>) \/ Contains(section, << "-" >>)
    THEN LineParagraphs(SplitOn(section, << "\n" >>))
    ELSE << Paragraph(section, "Normal", "") >>

\* the loop over sections, lines 55-86
RECURSIVE DocumentOf(_)
DocumentOf(sections) ==
    IF sections = << >> THEN << >>
    ELSE (IF StrStrip(Head(sections), Whitespace) = << >> THEN << >>
          ELSE Only({ SectionParagraphs(t) :
                        t \in { StrStrip(Head(sections), Whitespace) } }))
             \o DocumentOf(Tail(sections))

\* '<h2>Skills</h2>'
G_SkillsTitle ==
    << "<", "h", "2", ">", "S", "k", "i", "l", "l", "s", "<", "/", "h", "2", ">" >>

\* '<h1>Ann Lee Resume</h1>'
G_NameTitle ==
    << "<", "h", "1", ">", "A", "n", "n", " ", "L", "e", "e", " ", "R", "e", "s",
       "u", "m", "e", "<", "/", "h", "1", ">" >>

\* '<li>Led a big team</li><li>Cut costs</li>\n\n'
G_ListItems ==
    << "<", "l", "i", ">", "L", "e", "d", " ", "a", " ", "b", "i", "g", " ", "t",
       "e", "a", "m", "<", "/", "l", "i", ">", "<", "l", "i", ">", "C", "u", "t",
       " ", "c", "o", "s", "t", "s", "<", "/", "l", "i", ">", "\n", "\n" >>

\* '<p>* Built four APIs<br>* Ran ops</p>'
G_StarLines ==
    << "<", "p", ">", "*", " ", "B", "u", "i", "l", "t", " ", "f", "o", "u", "r",
       " ", "A", "P", "I", "s", "<", "b", "r", ">", "*", " ", "R", "a", "n", " ",
       "o", "p", "s", "<", "/", "p", ">" >>

\* '<p>Dev &amp; Ops  at Acme</p>'
G_PlainLine ==
    << "<", "p", ">", "D", "e", "v", " ", "&", "a", "m", "p", ";", " ", "O", "p",
       "s", " ", " ", "a", "t", " ", "A", "c", "m", "e", "<", "/", "p", ">" >>

\* '<p>- Wrote code<br/>on call  daily</p>'
G_DashLines ==
    << "<", "p", ">", "-", " ", "W", "r", "o", "t", "e", " ", "c", "o", "d", "e",
       "<", "b", "r", "/", ">", "o", "n", " ", "c", "a", "l", "l", " ", " ", "d",
       "a", "i", "l", "y", "<", "/", "p", ">" >>

\* '<style>p{}</style><div>Education</div>\n \n'
G_StyledTitle ==
    << "<", "s", "t", "y", "l", "e", ">", "p", "{", "}", "<", "/", "s", "t", "y",
       "l", "e", ">", "<", "d", "i", "v", ">", "E", "d", "u", "c", "a", "t", "i",
       "o", "n", "<", "/", "d", "i", "v", ">", "\n", " ", "\n" >>

\* 'resume.docx'
F_ResumeDocx ==
    << "r", "e", "s", "u", "m", "e", ".", "d", "o", "c", "x" >>

\* 'out/cv.docx'
F_OutCvDocx ==
    << "o", "u", "t", "/", "c", "v", ".", "d", "o", "c", "x" >>

MaxSections == 2     \* pieces of HTML a page given to render_docx is made of

HtmlPieces ==
    { G_SkillsTitle, G_NameTitle, G_ListItems, G_StarLines,
      G_PlainLine, G_DashLines, G_StyledTitle }

RECURSIVE Concat(_)
Concat(list) == IF list = << >> THEN << >> ELSE Head(list) \o Concat(Tail(list))

DocxPages == { Concat(ps) : ps \in SeqsUpTo(HtmlPieces, MaxSections) }

\* render_docx: the page, the path, and whether doc.save can write there
DocxArguments ==
    [ html_content : DocxPages, output_path : { F_ResumeDocx, F_OutCvDocx },
      writable : BOOLEAN ]

\* no renderer has been called
NoRender ==
    [ returned |-> None, raised |-> "", via |-> "", primary_error |-> "",
      fallback_calls |-> 0, document |-> << >> ]

RenderUnused ==
    /\ render_args = [ html_content |-> << >>, output_path |-> << >> ]
    /\ fs = {}
    /\ text_content = << >>
    /\ render_result = NoRender

InitExtract ==
    /\ job_description \in JobDescriptions
    /\ top_n \in 0..MaxTopN
    /\ heap = << EmptyDict >>
    /\ profile = 1
    /\ kw_arg = << >>
    /\ pc = "ready"
    /\ tokens = << >>
    /\ scored_keywords = << >>
    /\ keywords = << >>
    /\ merged = << >>
    /\ match = NoMatch
    /\ LLMUnused
    /\ AppUnused
    /\ ZipUnused
    /\ RenderUnused

InitScore ==
    /\ job_description \in ScoreJobDescriptions
    /\ top_n = DefaultTopN
    /\ heap \in { << p >> : p \in ScoreProfiles }
    /\ profile = 1
    /\ kw_arg = << >>
    /\ pc = "ready"
    /\ tokens = << >>
    /\ scored_keywords = << >>
    /\ keywords = << >>
    /\ merged = << >>
    /\ match = NoMatch
    /\ LLMUnused
    /\ AppUnused
    /\ ZipUnused
    /\ RenderUnused

InitMerge ==
    /\ job_description = None
    /\ top_n = DefaultTopN
    /\ heap \in { << p >> : p \in Profiles }
    /\ profile = 1
    /\ kw_arg \in KeywordLists
    /\ pc = "ready"
    /\ tokens = << >>
    /\ scored_keywords = << >>
    /\ keywords = << >>
    /\ merged = << >>
    /\ match = NoMatch
    /\ LLMUnused
    /\ AppUnused
    /\ ZipUnused
    /\ RenderUnused

InitRescore ==
    /\ job_description \in RescoreJobDescriptions
    /\ top_n = DefaultTopN
    /\ heap \in { << p >> : p \in RescoreProfiles }
    /\ profile = 1
    /\ kw_arg = << >>
    /\ pc = "ready"
    /\ tokens = << >>
    /\ scored_keywords = << >>
    /\ keywords = << >>
    /\ merged = << >>
    /\ match = NoMatch
    /\ LLMUnused
    /\ AppUnused
    /\ ZipUnused
    /\ RenderUnused

\* tokens = ATSExtractor.tokenize(job_description)
Tokenize ==
    /\ pc = "ready"
    /\ tokens' = tokenize(job_description)
    /\ pc' = "tokenized"
    /\ UNCHANGED << job_description, top_n, heap, profile, kw_arg,
                    scored_keywords, keywords, merged, match >>
    /\ UNCHANGED << llm_vars, app_vars, zip_vars, render_vars >>

\* keywords = extract_keywords(job_description, top_n)
ExtractKeywords ==
    /\ pc = "ready"
    /\ scored_keywords' = SortedScored(job_description)
    /\ keywords' = extract_keywords(job_description, top_n)
    /\ pc' = "extracted"
    /\ UNCHANGED << job_description, top_n, heap, profile, kw_arg, tokens,
                    merged, match >>
    /\ UNCHANGED << llm_vars, app_vars, zip_vars, render_vars >>

\* score = keyword_match_score(profile, job_description)
KeywordMatchScore ==
    /\ pc = "ready"
    /\ match' = keyword_match_score(heap[profile], job_description)
    /\ pc' = "scored"
    /\ UNCHANGED << job_description, top_n, heap, profile, kw_arg, tokens,
                    scored_keywords, keywords, merged >>
    /\ UNCHANGED << llm_vars, app_vars, zip_vars, render_vars >>

\* the caller appends an entry to one of the lists keyword_match_score reads
\* and calls keyword_match_score(profile, job_description) again
AddEntryAndScore ==
    /\ pc \in { "scored", "rescored" }
    /\ EntryCount(heap[profile]) < MaxEntries
    /\ \E place \in ScoredLists : \E entry \in RescoreEntries :
           heap' = [ heap EXCEPT ![profile] = AddEntry(@, place, entry) ]
    /\ match' = keyword_match_score(heap'[profile], job_description)
    /\ pc' = "rescored"
    /\ UNCHANGED << job_description, top_n, profile, kw_arg, tokens,
                    scored_keywords, keywords, merged >>
    /\ UNCHANGED << llm_vars, app_vars, zip_vars, render_vars >>

\* merge_keywords(profile, kw_arg), then merge_keywords on what it returned
MergeKeywords ==
    /\ pc \in { "ready", "merged" }
    /\ Len(merged) < MaxMerges
    /\ LET arg == IF merged = << >> THEN profile ELSE merged[Len(merged)]
           r   == merge_keywords(heap, arg, kw_arg)
       IN  /\ heap' = r.heap
           /\ merged' = Append(merged, r.ref)
    /\ pc' = "merged"
    /\ UNCHANGED << job_description, top_n, profile, kw_arg, tokens,
                    scored_keywords, keywords, match >>
    /\ UNCHANGED << llm_vars, app_vars, zip_vars, render_vars >>

InitGenerate ==
    /\ job_description = None
    /\ top_n = DefaultTopN
    /\ heap = << EmptyDict >>
    /\ profile = 1
    /\ kw_arg = << >>
    /\ pc = "ready"
    /\ tokens = << >>
    /\ scored_keywords = << >>
    /\ keywords = << >>
    /\ merged = << >>
    /\ match = NoMatch
    /\ api_url \in ApiUrls
    /\ api_token \in ApiTokens
    /\ kind \in Kinds
    /\ data \in GenerateContexts
    /\ \E i \in 1..Len(Remotes) : remote = Remotes[i]
    /\ generated = NotGenerated
    /\ requests_sent = 0
    /\ AppUnused
    /\ ZipUnused
    /\ RenderUnused

\* generated = generate_text(kind, data)
GenerateText ==
    /\ pc = "ready"
    /\ generated' = generate_text(api_url, api_token, kind, data, remote)
    /\ requests_sent' = requests_sent + generated'.requests
    /\ pc' = "generated"
    /\ UNCHANGED << ats_data, api_url, api_token, kind, data, remote >>
    /\ UNCHANGED << app_vars, zip_vars, render_vars >>

\* the three functions that read a profile, each on a profile with some of
\* its fields absent; the request succeeds or times out
InitFields ==
    /\ job_description = ExampleJD
    /\ top_n = DefaultTopN
    /\ heap \in { << p >> : p \in FieldProfiles }
    /\ profile = 1
    /\ kw_arg = << T_python, T_aws, T_developer >>
    /\ pc = "ready"
    /\ tokens = << >>
    /\ scored_keywords = << >>
    /\ keywords = << >>
    /\ merged = << >>
    /\ match = NoMatch
    /\ api_url = U_OpenAI
    /\ api_token = K_Token
    /\ kind \in KnownKinds
    /\ data = IF kind = "bullets" /\ "experience" \in DOMAIN heap[1]
              THEN BulletsContext(heap[1], heap[1]["experience"][1], kw_arg)
              ELSE heap[1]
    /\ remote \in { Remotes[1], Remotes[6] }
    /\ generated = NotGenerated
    /\ requests_sent = 0
    /\ AppUnused
    /\ ZipUnused
    /\ RenderUnused

\* one run of the script: what is in the profile box, the sidebar settings
\* and whether the Generate button was pressed
InitApp ==
    /\ job_description = None
    /\ top_n = DefaultTopN
    /\ heap = << EmptyDict >>
    /\ profile = 1
    /\ kw_arg = << >>
    /\ pc = "start"
    /\ tokens = << >>
    /\ scored_keywords = << >>
    /\ keywords = << >>
    /\ merged = << >>
    /\ match = NoMatch
    /\ api_url = U_OpenAI
    /\ api_token = K_Token
    /\ kind = "summary"
    /\ data = EmptyDict
    /\ remote = Remotes[1]
    /\ generated = NotGenerated
    /\ requests_sent = 0
    /\ \E text \in ProfileTexts, ats \in BOOLEAN, cover \in BOOLEAN,
          portfolio \in BOOLEAN, format \in ExportFormats, pressed \in BOOLEAN :
           ui = [ profile_json |-> text, template_choice |-> "modern",
                  optimize_ats |-> ats,
                  include_cover_letter |-> cover,
                  include_portfolio |-> portfolio,
                  export_format |-> format, button |-> pressed ]
    /\ run = NewRun
    /\ ZipUnused
    /\ RenderUnused

\* the preview block without st.stop() in its except clause
PreviewWithoutStop ==
    /\ pc = "start"
    /\ job_description' = IF ui.profile_json.text = "valid"
                          THEN JobDescriptionOf(ui.profile_json.value)
                          ELSE job_description
    /\ IF ui.profile_json.text = "invalid"
       THEN /\ run' = [ run EXCEPT !.log = Append(@, Step("st.error", 0)) ]
            /\ match' = match
       ELSE IF ui.profile_json.text = "valid" /\ ui.optimize_ats
               /\ job_description' # << >>
       THEN /\ match' = keyword_match_score(ui.profile_json.value,
                                            job_description')
            /\ run' = [ run EXCEPT
                          !.log = Append(@, Step("keyword_match_score", 0)) ]
       ELSE UNCHANGED << match, run >>
    /\ pc' = "button"
    /\ UNCHANGED << top_n, heap, profile, kw_arg, tokens, scored_keywords,
                    keywords, merged >>
    /\ UNCHANGED << llm_vars, ui, zip_vars, render_vars >>

\* lines 177-198: the preview of the profile box; text that is not JSON is
\* reported and st.stop() ends the run
Preview ==
    /\ pc = "start"
    /\ job_description' = IF ui.profile_json.text = "valid"
                          THEN JobDescriptionOf(ui.profile_json.value)
                          ELSE job_description
    /\ IF ui.profile_json.text = "invalid"
       THEN /\ run' = [ run EXCEPT !.log = Append(@, Step("st.error", 0)) ]
            /\ match' = match
            /\ pc' = "stopped"
       ELSE IF ui.profile_json.text = "valid" /\ ui.optimize_ats
               /\ job_description' # << >>
       THEN /\ match' = keyword_match_score(ui.profile_json.value,
                                            job_description')
            /\ run' = [ run EXCEPT
                          !.log = Append(@, Step("keyword_match_score", 0)) ]
            /\ pc' = "button"
       ELSE /\ UNCHANGED << match, run >>
            /\ pc' = "button"
    /\ UNCHANGED << top_n, heap, profile, kw_arg, tokens, scored_keywords,
                    keywords, merged >>
    /\ UNCHANGED << llm_vars, ui, zip_vars, render_vars >>

\* lines 201-207: the Generate button; without it the run ends, with an
\* empty box it warns and returns, else the text is parsed
PressGenerate ==
    /\ pc = "button"
    /\ IF ~ui.button THEN pc' = "idle" /\ run' = run
       ELSE IF ui.profile_json.text = "empty"
       THEN /\ pc' = "idle"
            /\ run' = [ run EXCEPT !.log = Append(@, Step("st.warning", 0)) ]
       ELSE IF ui.profile_json.text = "invalid"
       THEN /\ pc' = "failed"
            /\ run' = [ run EXCEPT !.log = Append(@, Step("st.error", 0)) ]
       ELSE /\ pc' = "parsed"
            /\ run' = [ run EXCEPT !.profile = ui.profile_json.value ]
    /\ UNCHANGED << ats_data, llm_vars, ui, zip_vars, render_vars >>

\* lines 210-215: extract_keywords and merge_keywords, or no keywords
ExtractAndMerge ==
    /\ pc = "parsed"
    /\ job_description' = JobDescriptionOf(run.profile)
    /\ IF ui.optimize_ats /\ job_description' # << >>
       THEN /\ keywords' = extract_keywords(job_description', DefaultTopN)
            /\ LET m == merge_keywords(<< run.profile >>, 1, keywords')
               IN  run' = [ run EXCEPT
                              !.ats_keywords = keywords',
                              !.profile = m.heap[m.ref],
                              !.log = @ \o << Step("extract_keywords", 0),
                                              Step("merge_keywords", 0) >> ]
       ELSE /\ keywords' = keywords
            /\ run' = [ run EXCEPT !.ats_keywords = << >> ]
    /\ pc' = "summary"
    /\ UNCHANGED << top_n, heap, profile, kw_arg, tokens, scored_keywords,
                    merged, match >>
    /\ UNCHANGED << llm_vars, ui, zip_vars, render_vars >>

\* one generate_text call of the run: its arguments, what its request meets
\* and its outcome
CallGenerateText(kind_, data_) ==
    /\ kind' = kind_
    /\ data' = data_
    /\ remote' \in RunRemotes
    /\ generated' = generate_text(api_url, api_token, kind_, data_, remote')
    /\ requests_sent' = requests_sent + generated'.requests
    /\ UNCHANGED << api_url, api_token >>

\* the except clause of lines 296-302
Caught(step, item) ==
    [ run EXCEPT !.log = @ \o << Step(step, item), Step("st.error", 0) >> ]

\* line 218: summary = generate_text("summary", profile)
GenerateSummary ==
    /\ pc = "summary"
    /\ CallGenerateText("summary", run.profile)
    /\ IF generated'.raised # ""
       THEN pc' = "failed" /\ run' = Caught("summary", 0)
       ELSE /\ pc' = "bullets"
            /\ run' = [ run EXCEPT !.summary = generated'.text,
                                   !.log = Append(@, Step("summary", 0)) ]
    /\ UNCHANGED << ats_data, ui, zip_vars, render_vars >>

\* lines 220-227: one turn of the loop over profile.get("experience", [])
GenerateBullets ==
    /\ pc = "bullets"
    /\ LET experience == DictGet(run.profile, "experience", << >>)
           i == Len(run.bullets) + 1
       IN  /\ i <= Len(experience)
           /\ CallGenerateText("bullets",
                  BulletsContext(run.profile, experience[i], run.ats_keywords))
           /\ IF generated'.raised # ""
              THEN pc' = "failed" /\ run' = Caught("bullets", i)
              ELSE /\ pc' = "bullets"
                   /\ run' = [ run EXCEPT
                                 !.bullets = Append(@, generated'.text),
                                 !.log = Append(@, Step("bullets", i)) ]
    /\ UNCHANGED << ats_data, ui, zip_vars, render_vars >>

\* lines 229-232 with the cover letter
GenerateCoverLetter ==
    /\ pc = "bullets"
    /\ Len(run.bullets) = Len(DictGet(run.profile, "experience", << >>))
    /\ ui.include_cover_letter
    /\ CallGenerateText("cover_letter", run.profile)
    /\ IF generated'.raised # ""
       THEN pc' = "failed" /\ run' = Caught("cover_letter", 0)
       ELSE /\ pc' = "render"
            /\ run' = [ run EXCEPT !.cover_letter = generated'.text,
                                   !.log = Append(@, Step("cover_letter", 0)) ]
    /\ UNCHANGED << ats_data, ui, zip_vars, render_vars >>

\* lines 229-232 without it: cover_letter = ""
SkipCoverLetter ==
    /\ pc = "bullets"
    /\ Len(run.bullets) = Len(DictGet(run.profile, "experience", << >>))
    /\ ~ui.include_cover_letter
    /\ run' = [ run EXCEPT !.cover_letter = << >> ]
    /\ pc' = "render"
    /\ UNCHANGED << ats_data, llm_vars, ui, zip_vars, render_vars >>

\* lines 235-246: the resume page
RenderHtml ==
    /\ pc = "render"
    /\ run' = [ run EXCEPT
                  !.resume_html =
                      RenderedHtml(ui.template_choice, run.profile, run.summary,
                          Zip(DictGet(run.profile, "experience", << >>),
                              run.bullets),
                          ui.include_portfolio),
                  !.log = Append(@, Step("render_html", 0)) ]
    /\ pc' = "docx"
    /\ UNCHANGED << ats_data, llm_vars, ui, zip_vars, render_vars >>

\* lines 262-265: render_docx for DOCX and BOTH
RenderDocx ==
    /\ pc = "docx"
    /\ IF ui.export_format \in { "DOCX", "BOTH" }
       THEN run' = [ run EXCEPT
                       !.files = Append(@, << "Resume", "resume.docx", "docx" >>),
                       !.log = Append(@, Step("render_docx", 0)) ]
       ELSE run' = run
    /\ pc' = "pdf"
    /\ UNCHANGED << ats_data, llm_vars, ui, zip_vars, render_vars >>

\* lines 268-271: render_pdf for PDF and BOTH
RenderPdf ==
    /\ pc = "pdf"
    /\ IF ui.export_format \in { "PDF", "BOTH" }
       THEN run' = [ run EXCEPT
                       !.files = Append(@, << "Resume", "resume.pdf", "pdf" >>),
                       !.log = Append(@, Step("render_pdf", 0)) ]
       ELSE run' = run
    /\ pc' = "zip"
    /\ UNCHANGED << ats_data, llm_vars, ui, zip_vars, render_vars >>

\* lines 274-277, then the download buttons and st.success
MakePortfolio ==
    /\ pc = "zip"
    /\ IF ui.include_portfolio
       THEN LET z == make_portfolio_zip(run.profile, run.resume_html,
                                        run.cover_letter)
            IN  /\ zip_args' = [ profile |-> run.profile,
                                 resume_html |-> run.resume_html,
                                 cover_letter |-> run.cover_letter ]
                /\ temp_dir' = z.temp_dir
                /\ archive' = z.archive
                /\ run' = [ run EXCEPT
                              !.files = Append(@, << "Portfolio",
                                                     "portfolio.zip", "zip" >>),
                              !.log = Append(@, Step("make_portfolio_zip", 0)) ]
       ELSE UNCHANGED << run, zip_vars >>
    /\ pc' = "complete"
    /\ UNCHANGED << ats_data, llm_vars, ui, render_vars >>

\* make_portfolio_zip on its own: its arguments
InitZip ==
    /\ job_description = None
    /\ top_n = DefaultTopN
    /\ heap = << EmptyDict >>
    /\ profile = 1
    /\ kw_arg = << >>
    /\ pc = "ready"
    /\ tokens = << >>
    /\ scored_keywords = << >>
    /\ keywords = << >>
    /\ merged = << >>
    /\ match = NoMatch
    /\ LLMUnused
    /\ AppUnused
    /\ zip_args \in ZipArguments
    /\ temp_dir = {}
    /\ archive = {}
    /\ RenderUnused

\* steps 1 to 7 of make_portfolio_zip
WritePortfolioFiles ==
    /\ pc = "ready"
    /\ temp_dir' = PortfolioFiles(zip_args.profile, zip_args.resume_html,
                                  zip_args.cover_letter)
    /\ pc' = "written"
    /\ UNCHANGED << ats_data, llm_vars, app_vars, zip_args, archive, render_vars >>

\* step 8 of make_portfolio_zip
ZipPortfolio ==
    /\ pc = "written"
    /\ archive' = ZipEntries(temp_dir)
    /\ temp_dir' = temp_dir \cup { InTempDir(F_PortfolioZip) }
    /\ pc' = "zipped"
    /\ UNCHANGED << ats_data, llm_vars, app_vars, zip_args, render_vars >>

InitPdf ==
    /\ job_description = None
    /\ top_n = DefaultTopN
    /\ heap = << EmptyDict >>
    /\ profile = 1
    /\ kw_arg = << >>
    /\ pc = "ready"
    /\ tokens = << >>
    /\ scored_keywords = << >>
    /\ keywords = << >>
    /\ merged = << >>
    /\ match = NoMatch
    /\ LLMUnused
    /\ AppUnused
    /\ ZipUnused
    /\ render_args \in PdfArguments
    /\ fs = IF render_args.stale THEN { render_args.output_path } ELSE {}
    /\ text_content = << >>
    /\ render_result = NoRender

\* render_pdf(html_content, output_path), lines 148-170: the conversion and
\* the test of its output
ConvertHtml ==
    /\ pc = "ready"
    /\ "conversion" \in DOMAIN render_args
    /\ LET r == TryConversion(render_args, fs)
       IN  /\ fs' = r.files
           /\ IF r.error = ""
              THEN /\ render_result' = [ NoRender EXCEPT
                                           !.returned = render_args.output_path,
                                           !.via = "primary" ]
                   /\ pc' = "returned"
              ELSE /\ render_result' = [ NoRender EXCEPT
                                           !.primary_error = r.error ]
                   /\ pc' = "except"
    /\ UNCHANGED << ats_data, llm_vars, app_vars, zip_vars, render_args,
                    text_content >>

\* render_pdf, lines 172-175: the except clause returns what
\* _create_fallback_pdf returns
CreateFallbackPdf ==
    /\ pc = "except"
    /\ LET f == create_fallback_pdf(render_args, fs)
       IN  /\ fs' = f.files
           /\ render_result' = [ render_result EXCEPT
                                   !.returned = f.returned,
                                   !.raised = f.raised,
                                   !.via = "fallback",
                                   !.fallback_calls = @ + 1,
                                   !.document = f.document ]
           /\ pc' = IF f.raised = "" THEN "returned" ELSE "raised"
    /\ UNCHANGED << ats_data, llm_vars, app_vars, zip_vars, render_args,
                    text_content >>

InitDocx ==
    /\ job_description = None
    /\ top_n = DefaultTopN
    /\ heap = << EmptyDict >>
    /\ profile = 1
    /\ kw_arg = << >>
    /\ pc = "ready"
    /\ tokens = << >>
    /\ scored_keywords = << >>
    /\ keywords = << >>
    /\ merged = << >>
    /\ match = NoMatch
    /\ LLMUnused
    /\ AppUnused
    /\ ZipUnused
    /\ render_args \in DocxArguments
    /\ fs = {}
    /\ text_content = << >>
    /\ render_result = NoRender

\* render_docx(html_content, output_path), line 50:
\* text_content = extract_text_from_html(html_content)
ExtractText ==
    /\ pc = "ready"
    /\ DOMAIN render_args = { "html_content", "output_path", "writable" }
    /\ text_content' = extract_text_from_html(render_args.html_content)
    /\ pc' = "extracted"
    /\ UNCHANGED << ats_data, llm_vars, app_vars, zip_vars, render_args, fs,
                    render_result >>

\* render_docx, lines 53-86: the paragraphs added for the sections
AddSections ==
    /\ pc = "extracted"
    /\ render_result' = [ render_result EXCEPT
                            !.document =
                                DocumentOf(SplitOn(text_content, << "\n", "\n" >>)) ]
    /\ pc' = "built"
    /\ UNCHANGED << ats_data, llm_vars, app_vars, zip_vars, render_args, fs,
                    text_content >>

\* render_docx, lines 89-90: doc.save(output_path), whose error nothing
\* catches, then return output_path
SaveDocx ==
    /\ pc = "built"
    /\ IF render_args.writable
       THEN /\ fs' = fs \cup { render_args.output_path }
            /\ render_result' = [ render_result EXCEPT
                                    !.returned = render_args.output_path,
                                    !.via = "primary" ]
            /\ pc' = "returned"
       ELSE /\ fs' = fs
            /\ render_result' = [ render_result EXCEPT
                                    !.raised = "PermissionError" ]
            /\ pc' = "raised"
    /\ UNCHANGED << ats_data, llm_vars, app_vars, zip_vars, render_args,
                    text_content >>

NextExtract == Tokenize \/ ExtractKeywords

NextScore == KeywordMatchScore

NextMerge == MergeKeywords

SpecExtract == InitExtract /\ [][NextExtract]_vars

SpecScore == InitScore /\ [][NextScore]_vars

SpecMerge == InitMerge /\ [][NextMerge]_vars

NextGenerate == GenerateText

SpecGenerate == InitGenerate /\ [][NextGenerate]_vars

NextRescore == KeywordMatchScore \/ AddEntryAndScore

SpecRescore == InitRescore /\ [][NextRescore]_vars

NextFields == KeywordMatchScore \/ MergeKeywords \/ GenerateText

SpecFields == InitFields /\ [][NextFields]_vars

NextApp ==
    \/ Preview
    \/ PressGenerate
    \/ ExtractAndMerge
    \/ GenerateSummary
    \/ GenerateBullets
    \/ GenerateCoverLetter
    \/ SkipCoverLetter
    \/ RenderHtml
    \/ RenderDocx
    \/ RenderPdf
    \/ MakePortfolio

SpecApp == InitApp /\ [][NextApp]_vars

NextZip == WritePortfolioFiles \/ ZipPortfolio

SpecZip == InitZip /\ [][NextZip]_vars

NextPdf == ConvertHtml \/ CreateFallbackPdf

SpecPdf == InitPdf /\ [][NextPdf]_vars

NextDocx == ExtractText \/ AddSections \/ SaveDocx

SpecDocx == InitDocx /\ [][NextDocx]_vars

Init ==
    \/ InitExtract
    \/ InitScore
    \/ InitMerge
    \/ InitRescore
    \/ InitGenerate
    \/ InitFields
    \/ InitApp
    \/ InitZip
    \/ InitPdf
    \/ InitDocx

Next ==
    \/ Tokenize
    \/ ExtractKeywords
    \/ KeywordMatchScore
    \/ MergeKeywords
    \/ AddEntryAndScore
    \/ GenerateText
    \/ Preview
    \/ PressGenerate
    \/ ExtractAndMerge
    \/ GenerateSummary
    \/ GenerateBullets
    \/ GenerateCoverLetter
    \/ SkipCoverLetter
    \/ RenderHtml
    \/ RenderDocx
    \/ RenderPdf
    \/ MakePortfolio
    \/ WritePortfolioFiles
    \/ ZipPortfolio
    \/ ConvertHtml
    \/ CreateFallbackPdf
    \/ ExtractText
    \/ AddSections
    \/ SaveDocx

Spec == Init /\ [][Next]_vars

-----------------------------------------------------------------------------
(* Properties of extract_keywords and tokenize (SpecExtract)               *)

\* how often a token occurs in a token list
Occurrences(word, list) == Cardinality({ i \in 1..Len(list) : list[i] = word })

\* the token is listed in some technical category
IsTechnicalTerm(word) ==
    \E c \in 1..Len(TECH_CATEGORIES) : InList(word, TECH_CATEGORIES[c].terms)

\* the boosted score the ranking is defined by
RankScore(word, list) ==
    IF IsTechnicalTerm(word)
    THEN 2 * Occurrences(word, list)
    ELSE Occurrences(word, list)

\* a ranks strictly before b: score descending, count descending, token ascending
RanksBefore(a, b, list) ==
    \/ RankScore(a, list) > RankScore(b, list)
    \/ /\ RankScore(a, list) = RankScore(b, list)
       /\ Occurrences(a, list) > Occurrences(b, list)
    \/ /\ RankScore(a, list) = RankScore(b, list)
       /\ Occurrences(a, list) = Occurrences(b, list)
       /\ StrLess(a, b)

NoDuplicates(list) ==
    \A i, j \in 1..Len(list) : i # j => list[i] # list[j]

Letters == Range(UpperCase) \cup Range(LowerCase) \cup Range(Digits)

\* every word of the text is a stopword, shorter than 3 characters, or
\* made of punctuation alone
OnlyFiller(text) ==
    \A w \in Range(StrSplit(text)) :
        \/ StrLower(w) \in STOPWORDS
        \/ Len(w) < 3
        \/ \A i \in 1..Len(w) : w[i] \notin Letters

\* C1: extract_keywords returns exactly the first min(top_n, number of distinct
\* tokens) distinct tokens of tokenize(job_description) in the order (boosted
\* score descending, raw count descending, token ascending); no token left out
\* ranks before a returned one.
C1_TopRanked ==
    pc = "extracted" =>
        LET toks     == tokenize(job_description)
            distinct == Range(toks)
            size     == Cardinality(distinct)
        IN  /\ Len(keywords) = IF top_n < size THEN top_n ELSE size
            /\ Range(keywords) \subseteq distinct
            /\ \A i, j \in 1..Len(keywords) :
                   i < j => RanksBefore(keywords[i], keywords[j], toks)
            /\ \A w \in distinct \ Range(keywords) :
                   \A i \in 1..Len(keywords) :
                       RanksBefore(keywords[i], w, toks)

\* C1 witness: a call that cut the ranking short after at least one keyword,
\* with a more frequent plain token placed before a technical one.
C1_Witness ==
    /\ pc = "extracted"
    /\ top_n >= 1
    /\ Len(keywords) = top_n
    /\ top_n < Cardinality(Range(tokenize(job_description)))
    /\ keywords[1] = T_developer
    /\ T_aws \in Range(tokenize(job_description))

\* C2: the list returned by extract_keywords has at most top_n elements and
\* holds no token twice.
C2_BoundedUnique ==
    pc = "extracted" => Len(keywords) <= top_n /\ NoDuplicates(keywords)

\* C2 witness: a description that repeats a token and has more distinct
\* tokens than top_n, so that both the bound and the uniqueness matter.
C2_Witness ==
    /\ pc = "extracted"
    /\ top_n >= 1
    /\ Len(keywords) = top_n
    /\ Len(scored_keywords) > top_n
    /\ Len(tokenize(job_description)) > Len(scored_keywords)

\* C3: no token returned by extract_keywords or tokenize is a member of
\* STOPWORDS, also when the input word carries leading or trailing
\* '-', '/', '&' or '+' around a stopword.
C3_NoStopwordReturned ==
    /\ pc = "extracted" => \A i \in 1..Len(keywords) : keywords[i] \notin STOPWORDS
    /\ pc = "tokenized" => \A i \in 1..Len(tokens) : tokens[i] \notin STOPWORDS

\* C9: extract_keywords returns the empty list when the job description is
\* None, is the empty string, or is a text that produces no tokens (only
\* stopwords, short words or punctuation).
C9_EmptyResult ==
    ( /\ pc = "extracted"
      /\ \/ job_description = None
         \/ job_description = << >>
         \/ OnlyFiller(job_description)
         \/ tokenize(job_description) = << >> )
        => keywords = << >>

\* C9 witness: a text of several filler words, none of them a token, and the
\* call returned the empty list.
C9_Witness ==
    /\ pc = "extracted"
    /\ job_description # None
    /\ Len(StrSplit(job_description)) >= 2
    /\ W_and \in Range(StrSplit(job_description))
    /\ OnlyFiller(job_description)
    /\ keywords = << >>

\* C10: the boosted score of a token is exactly 2 * raw count when the token
\* is a member of at least one technical category and exactly the raw count
\* otherwise (never more than doubled); a technical token occurring once has
\* score 2 and ranks before every non-technical token occurring once.
C10_BoostExactlyTwice ==
    pc = "extracted" =>
        LET toks == tokenize(job_description)
        IN  /\ \A i \in 1..Len(scored_keywords) :
                   LET k == scored_keywords[i]
                   IN  /\ k.count = Occurrences(k.word, toks)
                       /\ k.score = IF IsTechnicalTerm(k.word)
                                    THEN 2 * k.count
                                    ELSE k.count
            /\ \A i, j \in 1..Len(scored_keywords) :
                   ( /\ IsTechnicalTerm(scored_keywords[i].word)
                     /\ scored_keywords[i].count = 1
                     /\ ~IsTechnicalTerm(scored_keywords[j].word)
                     /\ scored_keywords[j].count = 1 )
                       => scored_keywords[i].score = 2 /\ i < j

\* C10 witness: the example description: python, aws and docker occur once
\* with score 2, ahead of looking, which occurs once with score 1.
C10_Witness ==
    /\ pc = "extracted"
    /\ job_description = ExampleJD
    /\ \A w \in { T_python, T_aws, T_docker } :
           \E i \in 1..Len(scored_keywords) :
               /\ scored_keywords[i] = [ word |-> w, score |-> 2, count |-> 1 ]
               /\ \E j \in (i + 1)..Len(scored_keywords) :
                      scored_keywords[j] =
                          [ word |-> T_looking, score |-> 1, count |-> 1 ]

-----------------------------------------------------------------------------
(* Properties of keyword_match_score (SpecScore)                           *)

\* the job keywords of a description
JobKeywords(text) == Range(extract_keywords(text, DefaultTopN))

\* score (in tenths) is 100 * points / (2 * size) rounded to one decimal
IsRoundedPercent(score, points, size) ==
    2 * (IF score * 2 * size >= 1000 * points
         THEN score * 2 * size - 1000 * points
         ELSE 1000 * points - score * 2 * size) <= 2 * size

PythonAwsProfile ==
    MakeProfile(Missing, Given([ technical |-> << W_Python, W_AWS >> ]),
                Missing, Missing)

\* C4: with a non-empty keyword set K, keyword_match_score returns
\* 100 * (2*T + N) / (2*|K|) rounded to one decimal, T the matched technical
\* keywords and N the matched non-technical ones; technical skills
\* ["Python", "AWS"] against {python, aws, docker} give 66.7.
C4_WeightedScore ==
    pc = "scored" =>
        LET K == JobKeywords(job_description)
            P == match.profile_skills
            T == Cardinality({ k \in K : k \in P /\ IsTechnicalTerm(k) })
            N == Cardinality({ k \in K : k \in P /\ ~IsTechnicalTerm(k) })
        IN  K # {} =>
                /\ match.error = ""
                /\ IsRoundedPercent(match.score, 2 * T + N, Cardinality(K))
                /\ ( heap[profile] = PythonAwsProfile
                       /\ K = { T_python, T_aws, T_docker } )
                     => match.score = 667

\* C4 witness: the example, scored 66.7.
C4_Witness ==
    /\ pc = "scored"
    /\ heap[profile] = PythonAwsProfile
    /\ match.jd_keywords = { T_python, T_aws, T_docker }
    /\ match.score = 667

\* C5: keyword_match_score returns 0.0 whenever the job description is empty
\* or yields no keywords, whatever the profile, and never divides by a zero
\* maximum score.
C5_ZeroWithoutKeywords ==
    pc = "scored" =>
        /\ ( Falsy(job_description) \/ JobKeywords(job_description) = {} )
             => match.error = "" /\ match.score = 0 /\ ~match.divided
        /\ match.divided => match.max_score # 0

\* C5 witness: a profile with skills scored against a text of stopwords.
C5_Witness ==
    /\ pc = "scored"
    /\ ~Falsy(job_description)
    /\ JobKeywords(job_description) = {}
    /\ ProfileSkills(heap[profile]) # {}
    /\ match.score = 0

\* C6: the value returned by keyword_match_score lies between 0 and 100, and
\* the accumulated total score never exceeds 2 * number of job keywords.
C6_ScoreInRange ==
    pc = "scored" =>
        /\ match.score >= 0
        /\ match.score <= 1000
        /\ match.total_score <= 2 * Cardinality(match.jd_keywords)

\* C6 witness: a profile that matches every keyword, all technical: 100.0.
C6_Witness ==
    /\ pc = "scored"
    /\ Cardinality(match.jd_keywords) >= 2
    /\ match.score = 1000

-----------------------------------------------------------------------------
(* Properties of merge_keywords (SpecMerge)                                *)

\* the object a merge_keywords call is given: the profile, then each result
MergeArgument(results) ==
    IF results = << >> THEN profile ELSE results[Len(results)]

\* C7: merge_keywords leaves its input profile unchanged: after the call the
\* input has exactly the keys and values it had before, and the additions
\* appear only in the returned copy.
C7_InputUnchanged ==
    [][ pc' = "merged" /\ merged' # merged =>
            LET arg == MergeArgument(merged)
                ret == merged'[Len(merged')]
            IN  /\ heap'[arg] = heap[arg]
                /\ \A r \in DOMAIN heap : heap'[r] = heap[r]
                /\ ret \notin DOMAIN heap
                /\ "ats_keywords" \in DOMAIN heap'[ret]
                /\ "ats_keyword_categories" \in DOMAIN heap'[ret]
                /\ merged = << >> =>
                       /\ "ats_keywords" \notin DOMAIN heap'[profile]
                       /\ "ats_keyword_categories" \notin DOMAIN heap'[profile]
      ]_vars

\* C7 witness: a profile with keys of its own merged with a keyword list; the
\* profile has no keyword key, the returned dict has.
C7_Witness ==
    /\ pc = "merged"
    /\ Len(merged) = 1
    /\ kw_arg # << >>
    /\ DOMAIN heap[profile] = { "name", "skills", "experience", "projects" }
    /\ "ats_keywords" \in DOMAIN heap[merged[1]]

\* C8: merging the result of a merge with the same keyword list gives the
\* same 'ats_keywords' and 'ats_keyword_categories' as the single merge: a
\* repeated merge never accumulates keywords.
C8_MergeIdempotent ==
    \A i \in 1..Len(merged) :
        /\ heap[merged[i]]["ats_keywords"] = heap[merged[1]]["ats_keywords"]
        /\ DOMAIN heap[merged[i]]["ats_keyword_categories"]
               = DOMAIN heap[merged[1]]["ats_keyword_categories"]
        /\ \A c \in DOMAIN heap[merged[1]]["ats_keyword_categories"] :
               heap[merged[i]]["ats_keyword_categories"][c]
                   = heap[merged[1]]["ats_keyword_categories"][c]

\* C8 witness: a second merge of a list with a technical keyword has returned.
C8_Witness ==
    /\ Len(merged) = 2
    /\ T_python \in Range(kw_arg)
    /\ T_developer \in Range(kw_arg)
    /\ heap[merged[2]]["ats_keywords"] = kw_arg
    /\ "programming" \in DOMAIN heap[merged[2]]["ats_keyword_categories"]

-----------------------------------------------------------------------------
(* The text generator                                                      *)

\* the fallback template of a kind, filled in from the context
FallbackText(kind_, data_) ==
    IF kind_ = "summary" THEN SummaryFallback(data_)
    ELSE IF kind_ = "bullets" THEN BulletsFallback
    ELSE CoverLetterFallback(data_)

\* the request is sent: there is a token and the URL has no "dev" in it,
\* whatever the case of its letters
HasDevMarker(url) ==
    \E i \in 1..(Len(url) - 2) :
        /\ url[i] \in { "d", "D" }
        /\ url[i + 1] \in { "e", "E" }
        /\ url[i + 2] \in { "v", "V" }

RequestAllowed == api_token # << >> /\ ~HasDevMarker(api_url)

\* the request times out, raises, or is answered with a status other than 200
RequestFails == remote.outcome = "exception" \/ remote.status # 200

\* C11: generate_text always returns a string and never raises, for every
\* kind and every outcome of the remote call, a status 200 with any JSON body
\* included.
C11_AlwaysReturnsString ==
    pc = "generated" => generated.raised = ""

\* C12: when the request times out, raises or is answered with a non-200
\* status, each generate method returns its fallback template and raises
\* nothing; and no call of generate_text sends more than one request.
C12_FallbackOnFailure ==
    /\ requests_sent <= 1
    /\ (pc = "generated" /\ kind \in KnownKinds /\ RequestFails) =>
           /\ generated.raised = ""
           /\ generated.text = FallbackText(kind, data)

\* C12 witness: the one request of a bullets call timed out and the bullets
\* fallback came back.
C12_Witness ==
    /\ pc = "generated"
    /\ kind = "bullets"
    /\ RequestAllowed
    /\ remote.outcome = "exception"
    /\ requests_sent = 1
    /\ generated.text = BulletsFallback

\* C13: with an empty token, or "dev" in the URL in any case of letters, no
\* request is sent and each generate method returns its fallback template,
\* never the "[LLM RESPONSE]" placeholder text.
C13_LocalFallback ==
    (pc = "generated" /\ kind \in KnownKinds /\ ~RequestAllowed) =>
        /\ requests_sent = 0
        /\ generated.raised = ""
        /\ generated.text = FallbackText(kind, data)
        /\ ~Contains(generated.text, S_LLMResponse)

\* C13 witness: a cover letter asked from a generator that has a token and
\* an endpoint with "DEV" in capitals.
C13_Witness ==
    /\ pc = "generated"
    /\ kind = "cover_letter"
    /\ api_token # << >>
    /\ Contains(api_url, << "D", "E", "V" >>)
    /\ "name" \in DOMAIN data
    /\ generated.text = CoverLetterFallback(data)

-----------------------------------------------------------------------------
(* Profiles with absent fields                                             *)

\* d with key set to default when d has no such key
WithDefault(d, key, default) ==
    IF key \in DOMAIN d THEN d ELSE DictSet(d, key, default)

\* an experience entry with its absent lists set to []
DefaultedEntry(exp) ==
    WithDefault(WithDefault(exp, "actions", << >>), "outcomes", << >>)

\* the profile with every absent recognised field set to its empty value
\* (a list to [], a dict to {}, the name to "Candidate")
Defaulted(p) ==
    LET top == WithDefault(WithDefault(WithDefault(WithDefault(WithDefault(
                   WithDefault(WithDefault(p, "name", S_Candidate),
                       "skills", EmptyDict),
                       "experience", << >>),
                       "projects", << >>),
                       "achievements", << >>),
                       "targets", EmptyDict),
                       "summary_preferences", EmptyDict)
        skills == WithDefault(top["skills"], "technical", << >>)
        experience == [ i \in 1..Len(top["experience"]) |->
                          DefaultedEntry(top["experience"][i]) ]
        projects == [ i \in 1..Len(top["projects"]) |->
                        WithDefault(top["projects"][i], "technologies", << >>) ]
    IN  DictSet(DictSet(DictSet(top, "skills", skills),
                        "experience", experience),
                "projects", projects)

\* the same for the context of a bullets call
DefaultedContext(d) ==
    IF "experience_item" \in DOMAIN d
    THEN DictSet(Defaulted(d), "experience_item",
                 DefaultedEntry(d["experience_item"]))
    ELSE Defaulted(d)

\* C14: on a profile with any subset of the recognised fields absent,
\* keyword_match_score, merge_keywords and generate_text (each of the three
\* kinds) complete without raising, and give what they give on the profile
\* whose absent fields hold their empty/default values.
C14_AbsentFieldsDefault ==
    /\ pc = "scored" =>
           /\ match.error = ""
           /\ match.score =
                  keyword_match_score(Defaulted(heap[profile]),
                                      job_description).score
    /\ pc = "merged" =>
           \A i \in 1..Len(merged) :
               LET d == merge_keywords(<< Defaulted(heap[profile]) >>, 1, kw_arg)
                   out == heap[merged[i]]
               IN  /\ out["ats_keywords"] = d.heap[d.ref]["ats_keywords"]
                   /\ out["ats_keyword_categories"]
                          = d.heap[d.ref]["ats_keyword_categories"]
                   /\ \A k \in DOMAIN heap[profile] : out[k] = heap[profile][k]
    /\ pc = "generated" =>
           /\ generated.raised = ""
           /\ generated.text =
                  generate_text(api_url, api_token, kind,
                                DefaultedContext(data), remote).text

\* C14 witness: a profile with no recognised field at all has been scored
\* against a job description that has keywords.
C14_Witness ==
    /\ pc = "scored"
    /\ heap[profile] = EmptyDict
    /\ match.jd_keywords # {}
    /\ match.score = 0

-----------------------------------------------------------------------------
(* The run of the script and the portfolio archive                         *)

\* the calls that extract, score, generate or render
WorkSteps ==
    { "keyword_match_score", "extract_keywords", "merge_keywords", "summary",
      "bullets", "cover_letter", "render_html", "render_docx", "render_pdf",
      "make_portfolio_zip" }

\* C15: when the profile text is non-empty and not valid JSON, the parse
\* error is reported and the run halts there: no keyword extraction, no text
\* generation and no rendering (DOCX, PDF, ZIP) happens in that run, even
\* with the Generate button pressed.
C15_InvalidJsonHalts ==
    ui.profile_json.text = "invalid" =>
        /\ pc \in { "start", "stopped" }
        /\ pc = "stopped" => run.log = << Step("st.error", 0) >>
        /\ \A i \in 1..Len(run.log) : run.log[i].step \notin WorkSteps
        /\ requests_sent = 0
        /\ run.files = << >>
        /\ archive = {}

\* C15 witness: text that is not JSON with the button pressed; the run has
\* stopped after reporting the error.
C15_Witness ==
    /\ ui.profile_json.text = "invalid"
    /\ ui.button
    /\ pc = "stopped"
    /\ run.log = << Step("st.error", 0) >>

\* the names C16 lists for every archive
ListedNames ==
    { F_ResumeHtml, F_CoverLetterTxt, F_ProfileJson, F_ReadmeMd, F_IndexHtml,
      F_SkillsMd }

\* projects/project_N.md
ProjectName(n) ==
    F_Projects \o << "/" >> \o F_ProjectPrefix \o IntToStr(n) \o F_Md

\* C16: for every profile, resume HTML and cover letter (the empty cover
\* letter and a profile without projects included) the archive of
\* make_portfolio_zip holds resume.html, cover_letter.txt, profile.json,
\* README.md, index.html and skills.md, one projects/project_N.md per
\* project, and never portfolio.zip.
C16_ArchiveContents ==
    pc = "zipped" =>
        /\ ListedNames \subseteq archive
        /\ \A n \in 1..Len(DictGet(zip_args.profile, "projects", << >>)) :
               ProjectName(n) \in archive
        /\ F_PortfolioZip \notin archive

\* the calls of the Generate block that the log holds (the preview's score
\* comes before the button)
RECURSIVE WithoutPreview(_)
WithoutPreview(log) ==
    IF log = << >> THEN << >>
    ELSE IF Head(log).step = "keyword_match_score"
    THEN WithoutPreview(Tail(log))
    ELSE << Head(log) >> \o WithoutPreview(Tail(log))

\* the calls C20 prescribes for the settings and the profile of the run
PrescribedSteps ==
    LET p == ui.profile_json.value
        n == Len(DictGet(p, "experience", << >>))
    IN  (IF ui.optimize_ats /\ JobDescriptionOf(p) # << >>
         THEN << Step("extract_keywords", 0), Step("merge_keywords", 0) >>
         ELSE << >>)
        \o << Step("summary", 0) >>
        \o [ i \in 1..n |-> Step("bullets", i) ]
        \o (IF ui.include_cover_letter THEN << Step("cover_letter", 0) >>
            ELSE << >>)
        \o << Step("render_html", 0) >>
        \o (IF ui.export_format \in { "DOCX", "BOTH" }
            THEN << Step("render_docx", 0) >> ELSE << >>)
        \o (IF ui.export_format \in { "PDF", "BOTH" }
            THEN << Step("render_pdf", 0) >> ELSE << >>)
        \o (IF ui.include_portfolio THEN << Step("make_portfolio_zip", 0) >>
            ELSE << >>)

\* C20: a Generate action on a valid profile runs extraction and merge (only
\* with ATS optimisation on and a job description; else no keywords and no
\* merge), one summary, one bullets generation per experience entry in
\* order, the cover letter if enabled, then the HTML, DOCX, PDF and ZIP; the
\* number of bullet texts equals the number of experience entries.
C20_StepsInSequence ==
    (pc \in { "complete", "failed" } /\ ui.profile_json.text = "valid") =>
        /\ WithoutPreview(run.log) = PrescribedSteps
        /\ Len(run.bullets)
               = Len(DictGet(ui.profile_json.value, "experience", << >>))
        /\ IF ui.optimize_ats /\ JobDescriptionOf(ui.profile_json.value) # << >>
           THEN run.profile["ats_keywords"] = run.ats_keywords
           ELSE run.ats_keywords = << >> /\ run.profile = ui.profile_json.value

-----------------------------------------------------------------------------
(* What the score reads, what tokenize returns, what the merge adds        *)

\* d cut down to the keys in keep
OnlyKeys(d, keep) == [ k \in (DOMAIN d) \cap keep |-> d[k] ]

\* the profile cut down to skills.technical, experience[].actions,
\* experience[].outcomes and projects[].technologies
ReadByScore(p) ==
    LET top == OnlyKeys(p, { "skills", "experience", "projects" })
    IN  [ k \in DOMAIN top |->
            IF k = "skills" THEN OnlyKeys(top[k], { "technical" })
            ELSE IF k = "experience"
            THEN [ i \in 1..Len(top[k]) |->
                     OnlyKeys(top[k][i], { "actions", "outcomes" }) ]
            ELSE [ i \in 1..Len(top[k]) |->
                     OnlyKeys(top[k][i], { "technologies" }) ] ]

\* C17: the score depends on the profile only through skills.technical,
\* experience[].actions, experience[].outcomes and projects[].technologies:
\* it is the score of the profile cut down to these fields, so two profiles
\* that agree on them get the same score for the same job description.
C17_ScoreReadsFourFields ==
    pc = "scored" =>
        match.score =
            keyword_match_score(ReadByScore(heap[profile]),
                                job_description).score

\* C17 witness: a profile with a name, targets and the soft skill
\* "developer" scored against a description with the keyword developer, which
\* the profile's read fields do not hold.
C17_Witness ==
    /\ pc = "scored"
    /\ { "name", "targets", "achievements" } \subseteq DOMAIN heap[profile]
    /\ "skills" \in DOMAIN heap[profile]
    /\ heap[profile]["skills"]["soft"] = << W_developer >>
    /\ T_developer \in match.jd_keywords
    /\ T_developer \notin match.profile_skills
    /\ match.score > 0

\* the whitespace-delimited words of the cleaned text
CleanedWords(text) == StrSplit(clean_text(text))

\* token is word without some leading and trailing characters
IsTrimOf(token, word) ==
    \E a \in 1..Len(word) : \E b \in a..Len(word) : SubSeq(word, a, b) = token

\* C18: every token returned by tokenize is lowercase, has at least 2
\* characters and comes from a word of the cleaned text of at least 3
\* characters; words of fewer than 3 characters produce no token.
C18_TokenShape ==
    pc = "tokenized" =>
        LET words == CleanedWords(job_description)
            long == { j \in 1..Len(words) : Len(words[j]) >= 3 }
        IN  /\ \A i \in 1..Len(tokens) :
                   /\ Range(tokens[i]) \cap Range(UpperCase) = {}
                   /\ Len(tokens[i]) >= 2
                   /\ \E j \in long : IsTrimOf(tokens[i], words[j])
            /\ Len(tokens) <= Cardinality(long)

\* C18 witness: "Go AI- -ML c++ a" gives the two-character tokens ai and ml;
\* its words go, c++ and a give none.
C18_Witness ==
    /\ pc = "tokenized"
    /\ job_description = ShortWordsJD
    /\ tokens = << << "a", "i" >>, << "m", "l" >> >>

\* the keywords of the list that are terms of the category, in list order
RECURSIVE MembersOf(_, _)
MembersOf(list, terms) ==
    IF list = << >> THEN << >>
    ELSE (IF \E t \in 1..Len(terms) : terms[t] = Head(list)
          THEN << Head(list) >> ELSE << >>)
             \o MembersOf(Tail(list), terms)

\* C19: in the profile merge_keywords returns, 'ats_keywords' is the given
\* list, 'ats_keyword_categories' maps a category to exactly the keywords of
\* the list that belong to it, in list order, a category being a key if and
\* only if some keyword belongs to it, and every other key of the input
\* profile is carried over unchanged.
C19_MergedProfile ==
    \A i \in 1..Len(merged) :
        LET input == IF i = 1 THEN heap[profile] ELSE heap[merged[i - 1]]
            out == heap[merged[i]]
            added == { "ats_keywords", "ats_keyword_categories" }
            cats == out["ats_keyword_categories"]
        IN  /\ out["ats_keywords"] = kw_arg
            /\ DOMAIN cats \subseteq
                   { TECH_CATEGORIES[c].category : c \in 1..Len(TECH_CATEGORIES) }
            /\ \A c \in 1..Len(TECH_CATEGORIES) :
                   LET members == MembersOf(kw_arg, TECH_CATEGORIES[c].terms)
                       name == TECH_CATEGORIES[c].category
                   IN  /\ name \in DOMAIN cats <=> members # << >>
                       /\ name \in DOMAIN cats => cats[name] = members
            /\ DOMAIN out = (DOMAIN input) \cup added
            /\ \A k \in (DOMAIN input) \ added : out[k] = input[k]

\* C19 witness: python, developer, python merged into a profile with keys of
\* its own: one category, holding python twice.
C19_Witness ==
    /\ pc = "merged"
    /\ Len(merged) = 1
    /\ kw_arg = << T_python, T_developer, T_python >>
    /\ "skills" \in DOMAIN heap[profile]
    /\ DOMAIN heap[merged[1]]["ats_keyword_categories"] = { "programming" }
    /\ heap[merged[1]]["ats_keyword_categories"]["programming"]
           = << T_python, T_python >>
    /\ heap[merged[1]]["skills"] = heap[profile]["skills"]

-----------------------------------------------------------------------------
(* Short technical terms (tokenize, TECH_CATEGORIES)                       *)

\* the characters str.strip('.,-/_&+') removes
IsStripChar(c) == c \in StripChars

\* the term neither begins nor ends with a strip character
CleanEnds(t) == t # << >> => ~IsStripChar(t[1]) /\ ~IsStripChar(t[Len(t)])

\* technical-category terms of two characters, and the two with a symbol
ShortTerms == { << "g", "o" >>, << "a", "i" >>, << "v", "s" >> }

SymbolTerms == { << "c", "+", "+" >>, << "c", "#" >> }

\* what tokenize or extract_keywords has returned
ReturnedTerms ==
    IF pc = "tokenized" THEN Range(tokens)
    ELSE IF pc = "extracted" THEN Range(keywords)
    ELSE {}

\* C23 as stated: no returned token begins or ends with one of . , - / _ & +
\* and none of go, ai, vs, c++, c# is ever returned by tokenize or
\* extract_keywords.
C23_ShortTermsNeverReturned ==
    /\ \A t \in ReturnedTerms : CleanEnds(t)
    /\ ReturnedTerms \cap (ShortTerms \cup SymbolTerms) = {}

\* C23 amended: no returned token begins or ends with a strip character;
\* c++ and c# are never returned; go, ai or vs is returned only for a word of
\* the cleaned text of at least 3 characters that is the term with strip
\* characters around it, and then extract_keywords gives it the boosted score.
C23_ShortTermsNeedTrim ==
    /\ \A t \in ReturnedTerms : CleanEnds(t)
    /\ ReturnedTerms \cap SymbolTerms = {}
    /\ \A t \in ReturnedTerms \cap ShortTerms :
           LET words == CleanedWords(job_description)
           IN  \E j \in 1..Len(words) :
                   /\ Len(words[j]) >= 3
                   /\ StrStrip(words[j], StripChars) = t
    /\ pc = "extracted" =>
           \A i \in 1..Len(scored_keywords) :
               scored_keywords[i].word \in ShortTerms =>
                   scored_keywords[i].score = 2 * scored_keywords[i].count

\* C23 witness: "go- /vs c# ai/ml" with top_n = 2 returns go and vs.
C23_Witness ==
    /\ pc = "extracted"
    /\ job_description = TechnicalShortJD
    /\ Range(keywords) = { << "g", "o" >>, << "v", "s" >> }

-----------------------------------------------------------------------------
(* Properties of keyword_match_score on a growing profile (SpecRescore)    *)

\* the profile of the first kind with Python added to its project
GrownProfile == AddEntry(CHOOSE p \in RescoreProfiles : "skills" \notin DOMAIN p, "technologies", W_Python)

\* C24: for a fixed job description, adding an entry to skills.technical, to
\* an experience entry's actions or outcomes, or to a project's technologies
\* never lowers the score keyword_match_score returns.
C24_Monotone ==
    [][ pc' = "rescored" =>
            /\ match.error = "" /\ match'.error = ""
            /\ match'.score >= match.score
            /\ match.profile_skills \subseteq match'.profile_skills ]_vars

\* C24 witness: against "Python" the profile without skills scores 0.0; with
\* Python added to its project's technologies it scores 100.0.
C24_Witness ==
    /\ pc = "rescored"
    /\ job_description = W_Python
    /\ heap[profile] = GrownProfile
    /\ match.score = 1000

\* C25: keyword_match_score returns 100.0 exactly when the job description
\* yields at least one keyword and every job keyword is a technical term and
\* a profile token; when the keywords are all non-technical and all profile
\* tokens it returns exactly 50.0.
C25_FullAndHalfScore ==
    pc \in { "scored", "rescored" } =>
        LET K == IF Falsy(job_description) THEN {}
                 ELSE JobKeywords(job_description)
            P == ProfileSkills(heap[profile])
        IN  /\ match.score = 1000 <=>
                   ( K # {} /\ \A k \in K : IsTechnicalTerm(k) /\ k \in P )
            /\ ( K # {} /\ \A k \in K : ~IsTechnicalTerm(k) /\ k \in P )
                   => match.score = 500

\* C25 witness: "developer Looking" against a profile holding both words
\* scores 50.0.
C25_Witness ==
    /\ pc = "rescored"
    /\ match.jd_keywords = { T_developer, T_looking }
    /\ { T_developer, T_looking } \subseteq match.profile_skills
    /\ match.score = 500

-----------------------------------------------------------------------------
(* Remote content and fallback (SpecGenerate)                              *)

\* the remote service answered with status 200 and a body whose content is
\* a string
HasStringContent ==
    /\ remote.outcome = "response"
    /\ remote.status = 200
    /\ AfterResponse(remote).ok
    /\ AfterResponse(remote).value.type = "str"

RemoteContent == AfterResponse(remote).value.str

\* the call was skipped (no token, dev URL) or failed (an exception, also one
\* raised while the body is read, or a status other than 200)
SkippedOrFailed ==
    \/ ~RequestAllowed
    \/ RequestFails
    \/ ~AfterResponse(remote).ok

\* C26: whenever the remote service answers with status 200 and a string
\* content, each generate method returns that content with surrounding
\* whitespace stripped; the fallback template is returned only when the
\* remote call was skipped or failed.
C26_RemoteContentReturned ==
    (pc = "generated" /\ kind \in KnownKinds) =>
        /\ (RequestAllowed /\ HasStringContent) =>
               /\ generated.raised = ""
               /\ generated.text = StrStrip(RemoteContent, Whitespace)
        /\ (generated.raised = "" /\ generated.text = FallbackText(kind, data))
               => SkippedOrFailed

-----------------------------------------------------------------------------
(* Properties of render_pdf (SpecPdf)                                      *)

\* the primary conversion raised, or left no file at output_path
ConversionFailed ==
    \/ render_args.conversion = "raises"
    \/ render_args.conversion = "silent" /\ ~render_args.stale

\* C21: whenever the primary conversion raises or leaves no output file,
\* render_pdf runs the fallback renderer, once, and the error of the
\* conversion is not propagated; when the conversion leaves a file the
\* fallback is not run; and whenever render_pdf returns, by the primary or
\* by the fallback path, it returns output_path, where a file then exists.
C21_FallbackOnFailure ==
    /\ pc = "except" => ConversionFailed
    /\ pc \in { "returned", "raised" } =>
           /\ ConversionFailed =>
                  /\ render_result.via = "fallback"
                  /\ render_result.fallback_calls = 1
                  /\ render_result.raised \notin { "OSError", "Exception" }
           /\ ~ConversionFailed =>
                  /\ pc = "returned"
                  /\ render_result.via = "primary"
                  /\ render_result.fallback_calls = 0
    /\ pc = "returned" =>
           /\ render_result.raised = ""
           /\ render_result.returned = render_args.output_path
           /\ render_args.output_path \in fs

\* C21 witness: the conversion returned without writing a file, and the
\* fallback wrote the text of the page and returned output_path.
C21_Witness ==
    /\ pc = "returned"
    /\ render_args.conversion = "silent"
    /\ ~render_args.stale
    /\ render_result.via = "fallback"
    /\ render_result.returned = F_OutCvPdf
    /\ render_result.document = << << "A", "n", "n", " ", "D", "e", "v", " ", "&", "a", "m", "p", ";", " ", "O", "p", "s" >> >>

-----------------------------------------------------------------------------
(* Properties of render_docx (SpecDocx)                                    *)

\* what a paragraph of the document is: a heading, a bullet item with its
\* text, or a plain paragraph with its text
KindOf(p) ==
    IF p.style \in { "Heading1", "Heading2" }
    THEN [ kind |-> "heading", text |-> << >> ]
    ELSE IF p.style = "List Bullet" THEN [ kind |-> "bullet", text |-> p.text ]
    ELSE [ kind |-> "paragraph", text |-> p.text ]

DocumentKinds(document) == [ i \in 1..Len(document) |-> KindOf(document[i]) ]

\* a section is a heading: a title of the whitelist, or short
IsHeading(section) ==
    \/ StrUpper(section) \in SectionTitles
    \/ Len(StrSplit(section)) <= 3
    \/ Contains(section, S_Resume)

\* the lines of a section that is no heading: bullet items and paragraphs
RECURSIVE LineKinds(_)
LineKinds(lines) ==
    IF lines = << >> THEN << >>
    ELSE LET line == StrStrip(Head(lines), Whitespace)
         IN  (IF line = << >> THEN << >>
              ELSE IF line[1] \in { BulletChar, "-", "*" }
              THEN << [ kind |-> "bullet",
                        text |-> StrStrip(Tail(line), Whitespace) ] >>
              ELSE << [ kind |-> "paragraph", text |-> line ] >>)
                 \o LineKinds(Tail(lines))

RECURSIVE SectionKinds(_)
SectionKinds(sections) ==
    IF sections = << >> THEN << >>
    ELSE LET section == StrStrip(Head(sections), Whitespace)
         IN  (IF section = << >> THEN << >>
              ELSE IF IsHeading(section)
              THEN << [ kind |-> "heading", text |-> << >> ] >>
              ELSE LineKinds(SplitOn(section, << "\n" >>)))
                 \o SectionKinds(Tail(sections))

\* C22: every non-empty section of the text is a heading when it matches the
\* whitelist or is short (at most 3 words, or contains "Resume"); otherwise
\* each of its lines that starts with the bullet character, "-" or "*" is a
\* bullet item with the prefix removed and every other non-empty line a
\* plain paragraph.
C22_SectionsClassified ==
    pc \in { "built", "returned", "raised" } =>
        DocumentKinds(render_result.document)
            = SectionKinds(SplitOn(text_content, << "\n", "\n" >>))

=============================================================================
